---- MODULE Spec2Model ----
(***************************************************************************)
(* State-machine model of the RiskOS morning briefing pipeline             *)
(* (scripts/run_morning_brief.py) and of the phase classifier              *)
(* (skills/phase-analyzer/scripts/phase_core.py).                          *)
(*                                                                         *)
(* Text lines of the report are modelled as tuples <<kind, field, ...>>:   *)
(* one kind per format string of the source, the fields being the values   *)
(* interpolated into it, so two lines are the same string exactly when     *)
(* the tuples are equal.  Dictionaries are functions from their keys.      *)
(***************************************************************************)
EXTENDS Integers, Sequences, FiniteSets, TLC

VARIABLES
    stateFile,   \* content of STATE_PATH (workspace/alerts/briefing_state.json)
    riskRules,   \* content of RISK_RULES_PATH (agent/config/risk-rules.yaml)
    inputs,      \* collaborator payloads of the last run (report "inputs")
    locals,      \* locals of the last run of main(), and the state file it read
    report,      \* briefing_json of the last run plus the rendered thought
    snapshot,    \* indicator tuple handed to get_phase
    phase,       \* value returned by get_phase for snapshot (0: not called yet)
    phaseConfig, \* content of config/phase-config.yaml
    history,     \* closes the price provider holds for each ticker, oldest first
    brokerage    \* what the broker holds: the account response and the CSV export

vars == <<stateFile, riskRules, inputs, locals, report, snapshot, phase, phaseConfig, history,
          brokerage>>

-----------------------------------------------------------------------------
(* Bounds of the model. *)

MaxHeadlines == 2     \* longest enumerated news payload
MaxTime == 2          \* publishedAt values 1..MaxTime (0: null)
MaxLevel == 2         \* price / average levels 0..MaxLevel fed to get_phase
BulkExtra == 1        \* a bulk payload holds NEWS_HASH_CAP + 0..BulkExtra headlines

(* Program constants. *)

NEWS_HASH_CAP == 500  \* run_morning_brief.py:418  [-500:]
EVENT_LIMIT == 8      \* run_morning_brief.py:183  limit: int = 8

Tickers == {"AAA", "BBB"}
\* every ticker string of the model, in Python's str order
StrOrder == <<"?", "AAA", "BBB", "aaa">>
Phases == 1..5
Scores == {"adversarial", "major", "macro", "relevant"}

-----------------------------------------------------------------------------
(* Generic helpers. *)

Range(s) == {s[i] : i \in 1..Len(s)}

\* dict.get(key, default)
Get(d, k, default) == IF k \in DOMAIN d THEN d[k] ELSE default

\* JSON values: [type |-> "object" | "array" | "int" | "string" | "null", val |-> ...]
JObj(f) == [type |-> "object", val |-> f]
JArr(s) == [type |-> "array", val |-> s]
JInt(n) == [type |-> "int", val |-> n]
JStr(s) == [type |-> "string", val |-> s]
JNull == [type |-> "null", val |-> 0]

\* a ticker-keyed stable sort: sorted(rows, key=lambda r: str(r.get("ticker", "")))
RECURSIVE SortByTickerFrom(_, _)
SortByTickerFrom(rows, i) ==
    IF i > Len(StrOrder) THEN <<>>
    ELSE SelectSeq(rows, LAMBDA r : r.ticker = StrOrder[i])
            \o SortByTickerFrom(rows, i + 1)
\* mutant: the rows are taken in the order given
SortByTicker_AsGiven(rows) == rows

SortByTicker(rows) == SortByTickerFrom(rows, 1)

\* str.upper() on the ticker strings of the model
Upper(t) == IF t = "aaa" THEN "AAA" ELSE t

\* str.strip() on a text value [id, pad]: pad says whitespace surrounds the text
Strip(x) == [id |-> x.id, pad |-> FALSE]

-----------------------------------------------------------------------------
(* run_morning_brief.py: unique_lines *)

RECURSIVE unique_loop(_, _, _)
unique_loop(lines, seen, out) ==
    IF lines = <<>> THEN out
    ELSE LET line == Head(lines) IN
         IF line \in seen
         THEN unique_loop(Tail(lines), seen, out)
         ELSE unique_loop(Tail(lines), seen \cup {line}, Append(out, line))

\* mutant: of a repeated line the last occurrence is kept
unique_lines_KeepLast(lines) ==
    LET kept == {i \in 1..Len(lines) : \A j \in (i + 1)..Len(lines) : lines[j] # lines[i]}
        indices == SelectSeq([i \in 1..Len(lines) |-> i], LAMBDA i : i \in kept)
    IN [k \in 1..Len(indices) |-> lines[indices[k]]]

unique_lines(lines) == unique_loop(lines, {}, <<>>)

-----------------------------------------------------------------------------
(* run_morning_brief.py: load_state / save_state *)

EmptyDict == <<>>

\* stateFile.kind: "absent" (no file), "unreadable" (read_text raises),
\* "notjson" (json.loads raises), "json" (parsed document in .doc)
load_state(file) ==
    IF file.kind = "absent" THEN EmptyDict
    ELSE IF file.kind \in {"unreadable", "notjson"} THEN EmptyDict
    ELSE IF file.doc.type = "object" THEN file.doc.val
    ELSE EmptyDict

save_state(state) == [kind |-> "json", doc |-> JObj(state)]

\* int(value), or None when int() raises; the stored values the model
\* enumerates are integers, non-numeric strings and null
phase_as_int(value) ==
    IF value.type = "int" THEN value ELSE JNull

-----------------------------------------------------------------------------
(* run_morning_brief.py: headline_hash *)

\* A headline is [ticker, title, source, publishedAt, url, score]; title and
\* source are text values [id, pad], publishedAt is 0 (null) or 1..MaxTime.
MaxTitle == NEWS_HASH_CAP + BulkExtra + 2
SourceIds == 1..2

TickerIndex(t) == CHOOSE i \in 1..Len(StrOrder) : StrOrder[i] = t

\* the 16 hex digits of sha256(key), as a number: distinct keys get distinct
\* digests, and the order of the digests is the order of the hex strings
Digest(key) ==
    ((key[2].id * (Cardinality(SourceIds) + 1) + key[3].id) * (MaxTime + 1) + key[4])
        * Len(StrOrder) + TickerIndex(key[1])

HashSpace == Digest(<<StrOrder[Len(StrOrder)], [id |-> MaxTitle, pad |-> FALSE],
                      [id |-> Cardinality(SourceIds), pad |-> FALSE], MaxTime>>)

\* mutant: the url takes part in the fingerprint
headline_hash_WithUrl(item) ==
    Digest(<<Upper(item.ticker), Strip(item.title), Strip(item.source),
             item.publishedAt>>) + (HashSpace + 1) * item.url

headline_hash(item) ==
    Digest(<<Upper(item.ticker), Strip(item.title), Strip(item.source),
             item.publishedAt>>)

\* sorted(set_of_digests): by repeated minimum for a small set, by a scan of
\* the digest space for a large one
RECURSIVE SortSmall(_)
SortSmall(S) ==
    IF S = {} THEN <<>>
    ELSE LET m == CHOOSE x \in S : \A y \in S : x <= y
         IN <<m>> \o SortSmall(S \ {m})

SortedDigests(S) ==
    IF Cardinality(S) <= EVENT_LIMIT THEN SortSmall(S)
    ELSE SelectSeq([d \in 1..HashSpace |-> d], LAMBDA d : d \in S)

\* seq[-n:]
LastN(s, n) == IF Len(s) <= n THEN s ELSE SubSeq(s, Len(s) - n + 1, Len(s))

-----------------------------------------------------------------------------
(* run_morning_brief.py: load_phase_transition_pairs *)

default_pairs == {<<3, 4>>, <<4, 5>>}

\* riskRules.kind: "absent" (no file), "unparsable" (yaml raises), "yaml"
\* (.pairs is the JSON value at hard_alerts.phase_transition_pairs)
ValidPairItem(item) ==
    /\ item.type = "array"
    /\ Len(item.val) = 2
    /\ item.val[1].type = "int"
    /\ item.val[2].type = "int"

load_phase_transition_pairs(rules) ==
    IF rules.kind \in {"absent", "unparsable"} THEN default_pairs
    ELSE IF rules.pairs.type # "array" THEN default_pairs
    ELSE LET out == {<<item.val[1].val, item.val[2].val>> :
                        item \in {x \in Range(rules.pairs.val) : ValidPairItem(x)}}
         IN IF out = {} THEN default_pairs ELSE out

-----------------------------------------------------------------------------
(* run_morning_brief.py: build_external_events *)

IsScored(h) == h.score \in {"adversarial", "major", "macro"}

\* filtered.sort(key=publishedAt, reverse=True): stable, latest first
RECURSIVE SortByTimeDesc(_, _)
SortByTimeDesc(items, t) ==
    IF t < 0 THEN <<>>
    ELSE SelectSeq(items, LAMBDA h : h.publishedAt = t) \o SortByTimeDesc(items, t - 1)

\* mutant: every scored item is rendered
EventItems_Uncapped(headlines) == SortByTimeDesc(SelectSeq(headlines, IsScored), MaxTime)

\* the items a line is rendered for: filtered[:limit]
EventItems(headlines) ==
    LET filtered == SortByTimeDesc(SelectSeq(headlines, IsScored), MaxTime)
    IN SubSeq(filtered, 1, IF Len(filtered) < EVENT_LIMIT THEN Len(filtered) ELSE EVENT_LIMIT)

EventLine(item) == <<"event", item.ticker, item.score, item.title, item.source>>

build_external_events(headlines) ==
    LET items == EventItems(headlines)
    IN unique_lines([i \in 1..Len(items) |-> EventLine(items[i])])

-----------------------------------------------------------------------------
(* run_morning_brief.py: choose_actionable_thought *)

TickersOf(rows) == LET s == SortByTicker(rows) IN [i \in 1..Len(s) |-> s[i].ticker]

\* mutant: the weakening and phase 3 messages are chosen before the deflection
choose_actionable_thought_OpportunityFirst(hard_alerts, phases) ==
    LET phase3 == SelectSeq(phases, LAMBDA p : p.phase = JInt(3))
        weakening == SelectSeq(phases, LAMBDA p : p.phase \in {JInt(4), JInt(5)})
    IN IF weakening # <<>> THEN <<"weakening", TickersOf(weakening)>>
       ELSE IF phase3 # <<>> THEN <<"phase3_wait", TickersOf(phase3)>>
       ELSE IF hard_alerts # <<>> THEN <<"address_hard_alerts">>
       ELSE <<"None">>

choose_actionable_thought(hard_alerts, phases) ==
    LET phase3 == SelectSeq(phases, LAMBDA p : p.phase = JInt(3))
        weakening == SelectSeq(phases, LAMBDA p : p.phase \in {JInt(4), JInt(5)})
    IN IF hard_alerts # <<>> THEN <<"address_hard_alerts">>
       ELSE IF weakening # <<>> THEN <<"weakening", TickersOf(weakening)>>
       ELSE IF phase3 # <<>> THEN <<"phase3_wait", TickersOf(phase3)>>
       ELSE <<"None">>

\* actionable_thought or "No high-confidence action today."
RenderThought(thought) == IF thought = <<"None">> THEN <<"no_action_today">> ELSE thought

-----------------------------------------------------------------------------
(* run_morning_brief.py: as_decimal, q2, fmt_pct, fmt_currency.             *)
(* Amounts and percentages are integers counting thousandths.               *)

\* Decimal.quantize(Decimal("0.01"), ROUND_HALF_UP): hundredths, half away from zero
q2(value) ==
    IF value >= 0 THEN (value + 5) \div 10 ELSE -((-value + 5) \div 10)

\* the rendered text is determined by the quantized value
fmt_pct(value) == <<"pct", q2(value)>>
fmt_currency(value) == <<"usd", q2(value)>>

-----------------------------------------------------------------------------
(* run_morning_brief.py: main, lines 220-262: collaborators, first hard alerts *)

\* sorted({str(p.get("ticker", "")).upper() for p in positions if p.get("ticker")})
TickerList(positions) ==
    LET held == {Upper(positions[i].ticker) : i \in 1..Len(positions)}
    IN SelectSeq(StrOrder, LAMBDA t : t \in held)

NoTickersPhases == [phases |-> <<>>, status |-> "No tickers"]
NoTickersNews == [headlines |-> <<>>, status |-> "No tickers", alerts |-> <<>>]

\* sorted(str(x) for x in news_alerts); an alert text is <<ticker, score, title>>
\* (get_news.py line 290) and texts compare field by field
ScoreOrder == <<"adversarial", "major", "macro", "relevant">>
AlertKey(a) ==
    (TickerIndex(a[1]) * Len(ScoreOrder)
        + (CHOOSE i \in 1..Len(ScoreOrder) : ScoreOrder[i] = a[2])) * (MaxTitle + 1)
    + a[3].id
SortAlerts(alerts) == SortSeq(alerts, LAMBDA a, b : AlertKey(a) < AlertKey(b))

DrawdownLines(drawdown_data, summary) ==
    LET daily_pnl_pct == Get(drawdown_data, "dailyPnlPct", Get(summary, "dailyPnlPct", 0))
    IN IF Get(drawdown_data, "alert", FALSE)
       THEN << <<"portfolio_daily_move", fmt_pct(daily_pnl_pct)>> >>
       ELSE <<>>

StopLine(alert) ==
    <<"stop", alert.ticker, alert.status, fmt_currency(alert.currentPrice),
      fmt_currency(alert.stop), fmt_pct(alert.pctToStop)>>

StopLines(stops_data) ==
    LET sorted == SortByTicker(Get(stops_data, "alerts", <<>>))
    IN [i \in 1..Len(sorted) |-> StopLine(sorted[i])]

NewsAlertLines(news_data) ==
    LET sorted == SortAlerts(Get(news_data, "alerts", <<>>))
    IN [i \in 1..Len(sorted) |-> <<"news_alert", sorted[i]>>]

\* hard_alerts as of line 262
FirstHardAlerts(drawdown_data, summary, stops_data, news_data) ==
    unique_lines(DrawdownLines(drawdown_data, summary) \o StopLines(stops_data)
                 \o NewsAlertLines(news_data))

-----------------------------------------------------------------------------
(* run_morning_brief.py: main, lines 264-301: phase rows, watch flags *)

\* previous_state.get("phaseByTicker", {}), {} unless it is a dict
PreviousPhaseMap(previous_state) ==
    LET v == Get(previous_state, "phaseByTicker", JObj(EmptyDict))
    IN IF v.type = "object" THEN v.val ELSE EmptyDict

\* [p for p in phases if isinstance(p, dict) and not p.get("error")]
PhaseRows(phases) == SelectSeq(phases, LAMBDA p : "error" \notin DOMAIN p)

RowPhase(row) == phase_as_int(row.phase)
RowPrevious(row, previous_phase_map) ==
    phase_as_int(Get(previous_phase_map, row.ticker, JNull))

\* line 274
BothKnown(row, previous_phase_map) ==
    RowPrevious(row, previous_phase_map).type = "int" /\ RowPhase(row).type = "int"

\* mutant: a known previous phase counts as a transition even when unchanged
IsTransition_IgnoringEquality(row, previous_phase_map) ==
    BothKnown(row, previous_phase_map)

\* line 276
IsTransition(row, previous_phase_map) ==
    /\ BothKnown(row, previous_phase_map)
    /\ RowPhase(row) # RowPrevious(row, previous_phase_map)

TransitionLine(row, previous_phase_map) ==
    <<"phase_transition", row.ticker, RowPrevious(row, previous_phase_map).val,
      RowPhase(row).val>>

\* mutant: the pair is looked up as (current, previous)
IsHardTransition_Swapped(row, previous_phase_map, pairs) ==
    <<RowPhase(row).val, RowPrevious(row, previous_phase_map).val>> \in pairs

\* line 279
IsHardTransition(row, previous_phase_map, pairs) ==
    <<RowPrevious(row, previous_phase_map).val, RowPhase(row).val>> \in pairs

\* phase_transitions.append of one iteration of the loop of line 270
RowTransitions(row, previous_phase_map) ==
    IF IsTransition(row, previous_phase_map)
    THEN <<TransitionLine(row, previous_phase_map)>> ELSE <<>>

\* hard_alerts.append of one iteration
RowHardAlerts(row, previous_phase_map, pairs) ==
    IF IsTransition(row, previous_phase_map) /\ IsHardTransition(row, previous_phase_map, pairs)
    THEN << <<"phase_alert", TransitionLine(row, previous_phase_map)>> >> ELSE <<>>

\* watch_flags.append of one iteration
RowWatchFlags(row, previous_phase_map, pairs) ==
    (IF IsTransition(row, previous_phase_map) /\ ~IsHardTransition(row, previous_phase_map, pairs)
     THEN << <<"transition_flag", TransitionLine(row, previous_phase_map)>> >> ELSE <<>>)
    \o (IF RowPhase(row) = JInt(4) THEN << <<"phase4", row.ticker>> >>
        ELSE IF RowPhase(row) = JInt(5) THEN << <<"phase5", row.ticker>> >>
        ELSE IF RowPhase(row) = JInt(3) /\ Get(row, "hmaTrend", "") = "falling"
             THEN << <<"phase3_hull_falling", row.ticker>> >>
        ELSE <<>>)
    \o (IF Get(row, "hmaCross", "") = "bearish"
        THEN << <<"bearish_cross", row.ticker>> >> ELSE <<>>)

\* row["previousPhase"] = previous_phase (line 275)
AnnotatedRow(row, previous_phase_map) ==
    IF "error" \notin DOMAIN row /\ BothKnown(row, previous_phase_map)
    THEN row @@ [previousPhase |-> RowPrevious(row, previous_phase_map).val]
    ELSE row

\* the concatenation of Op(rows[1]), Op(rows[2]), ...
FlatMap(rows, Op(_)) ==
    LET acc[i \in 0..Len(rows)] == IF i = 0 THEN <<>> ELSE acc[i - 1] \o Op(rows[i])
    IN acc[Len(rows)]

ConcentrationLine(flag) ==
    <<"concentration", flag.ticker, fmt_pct(flag.weightPct), flag.reason>>

ExposureLines(exposure_data) ==
    LET sorted == SortByTicker(Get(exposure_data, "reEvalFlags", <<>>))
    IN [i \in 1..Len(sorted) |-> ConcentrationLine(sorted[i])]

-----------------------------------------------------------------------------
(* run_morning_brief.py: main, lines 303-326: headlines and deltas *)

\* {str(h) for h in previous_state.get("newsHashes", [])}, [] unless it is a list
\* mutant: the fingerprints of the previous run are not consulted
PreviousNewsHashSet_Forgotten(previous_state) == {}

PreviousNewsHashSet(previous_state) ==
    LET v == Get(previous_state, "newsHashes", JArr(<<>>))
    IN IF v.type = "array" THEN Range(v.val) ELSE {}

\* mutant: every run counts as having prior state
StateLoaded_Always(previous_state) == TRUE

\* bool(previous_state)
StateLoaded(previous_state) == DOMAIN previous_state # {}

\* lines 309-315: the items appended to new_headlines
NewHeadlines(headlines, previous_news_hash_set) ==
    SelectSeq(headlines, LAMBDA item : headline_hash(item) \notin previous_news_hash_set)

AllHeadlineHashes(headlines) == [i \in 1..Len(headlines) |-> headline_hash(headlines[i])]

\* mutant: the events are always built from every headline
EventSource_AllHeadlines(state_loaded, new_headlines, headlines) == headlines

\* line 318: the list handed to build_external_events
EventSource(state_loaded, new_headlines, headlines) ==
    IF state_loaded THEN new_headlines ELSE headlines

\* lines 319-326
DeltaLines(phase_transitions, state_loaded, new_headlines) ==
    unique_lines(phase_transitions
                 \o (IF state_loaded
                     THEN << <<"new_scored_headlines", Len(new_headlines)>> >>
                     ELSE << <<"baseline_run">> >>))

-----------------------------------------------------------------------------
(* run_morning_brief.py: main, lines 412-424: the state written *)

\* lines 412-417
\* mutant: the entries of the state loaded are kept for the tickers not
\* classified in this run
LatestPhaseMap_CarriedOver(phase_rows) ==
    LET kept == {i \in 1..Len(phase_rows) : RowPhase(phase_rows[i]).type = "int"}
        latest == [k \in {Upper(phase_rows[i].ticker) : i \in kept} |->
                     RowPhase(phase_rows[CHOOSE i \in kept :
                                            Upper(phase_rows[i].ticker) = k])]
    IN latest @@ PreviousPhaseMap(load_state(stateFile))

LatestPhaseMap(phase_rows) ==
    LET kept == {i \in 1..Len(phase_rows) : RowPhase(phase_rows[i]).type = "int"}
        keys == {Upper(phase_rows[i].ticker) : i \in kept}
        last(k) == CHOOSE i \in kept :
                      /\ Upper(phase_rows[i].ticker) = k
                      /\ \A j \in kept : Upper(phase_rows[j].ticker) = k => j <= i
    IN [k \in keys |-> RowPhase(phase_rows[last(k)])]

\* mutant: the sorted fingerprints are persisted without the slice
LatestNewsHashes_Uncapped(all_headline_hashes) ==
    SortedDigests(Range(all_headline_hashes))

\* line 418: sorted(set(all_headline_hashes))[-500:]
LatestNewsHashes(all_headline_hashes) ==
    LastN(SortedDigests(Range(all_headline_hashes)), NEWS_HASH_CAP)

NextState(phase_rows, all_headline_hashes) ==
    [updatedAt |-> JStr("generated_at"),
     phaseByTicker |-> JObj(LatestPhaseMap(phase_rows)),
     newsHashes |-> JArr(LatestNewsHashes(all_headline_hashes))]

-----------------------------------------------------------------------------
(* run_morning_brief.py: main *)

NoRun == [ran |-> FALSE]

\* no account response and no CSV export at hand
NoAccount == [kind |-> "none"]

\* the price provider holds no closes for any ticker
NoHistory == [t \in {} |-> <<>>]

\* path.write_text(text) (save_state, line 119) opens the file for writing,
\* which truncates it, writes the text and closes. A process that ends before
\* the open leaves the old file; one that ends between the truncation and the
\* last byte leaves a strict prefix of the document (no JSON: the closing brace
\* is missing); otherwise the file is the document.
SaveOutcomes == {"complete", "before_open", "torn"}
write_text(old, document, outcome) ==
    IF outcome = "complete" THEN document
    ELSE IF outcome = "before_open" THEN old
    ELSE [kind |-> "notjson"]

\* lines 407-410: a write_text of a report file that raises ends the run there
ReportFailures == {"json_failed", "md_failed"}

\* the report files written when the run ends
ReportFiles(outcome) ==
    IF outcome = "json_failed" THEN <<>>
    ELSE IF outcome = "md_failed" THEN <<"json">>
    ELSE <<"json", "md">>

\* mutant: the state is saved before the report files are written
StateAfter_SavedFirst(old, document, outcome) ==
    IF outcome \in ReportFailures THEN document ELSE write_text(old, document, outcome)

\* lines 409-424: save_state is reached only past both write_text calls
StateAfter(old, document, outcome) ==
    IF outcome \in ReportFailures THEN old ELSE write_text(old, document, outcome)

\* mutant: the phase and the news source are started whatever the tickers
Invocations_Unconditional(tickers) ==
    <<"positions", "stops", "drawdown", "exposure", "phases", "news">>

\* lines 219-243: the collaborators run_json starts, in order; run_json
\* (lines 63-93) calls subprocess.run once and returns on every path
Invocations(tickers) ==
    <<"positions", "stops", "drawdown", "exposure">>
        \o (IF tickers # <<>> THEN <<"phases">> ELSE <<>>)
        \o (IF tickers # <<>> THEN <<"news">> ELSE <<>>)

\* main, with the point at which the process ends: within save_state, or at
\* a report file that cannot be written
MainSaving(positions_data, stops_data, drawdown_data, exposure_data, phases_out, news_out, outcome) ==
    LET previous_state == load_state(stateFile)
        state_loaded == StateLoaded(previous_state)
        pairs == load_phase_transition_pairs(riskRules)
        positions == Get(positions_data, "positions", <<>>)
        summary == Get(positions_data, "summary", EmptyDict)
        tickers == TickerList(positions)
        phases_data == IF tickers # <<>> THEN phases_out ELSE NoTickersPhases
        news_data == IF tickers # <<>> THEN news_out ELSE NoTickersNews
        phases == Get(phases_data, "phases", <<>>)
        daily_pnl_pct == Get(drawdown_data, "dailyPnlPct", Get(summary, "dailyPnlPct", 0))
        previous_phase_map == PreviousPhaseMap(previous_state)
        phase_rows == PhaseRows(phases)
        sorted_rows == SortByTicker(phase_rows)
        phase_transitions ==
            FlatMap(sorted_rows, LAMBDA r : RowTransitions(r, previous_phase_map))
        hard_alerts ==
            unique_lines(
                FirstHardAlerts(drawdown_data, summary, stops_data, news_data)
                \o FlatMap(sorted_rows, LAMBDA r : RowHardAlerts(r, previous_phase_map, pairs)))
        watch_flags ==
            unique_lines(
                FlatMap(sorted_rows, LAMBDA r : RowWatchFlags(r, previous_phase_map, pairs))
                \o ExposureLines(exposure_data))
        headlines == Get(news_data, "headlines", <<>>)
        previous_news_hash_set == PreviousNewsHashSet(previous_state)
        new_headlines == NewHeadlines(headlines, previous_news_hash_set)
        all_headline_hashes == AllHeadlineHashes(headlines)
        external_events ==
            build_external_events(EventSource(state_loaded, new_headlines, headlines))
        delta_lines == DeltaLines(phase_transitions, state_loaded, new_headlines)
        \* phase_rows holds the row objects line 275 annotated
        annotated == [i \in 1..Len(phase_rows) |->
                         AnnotatedRow(phase_rows[i], previous_phase_map)]
        actionable_thought == choose_actionable_thought(hard_alerts, annotated)
        total_value == Get(summary, "totalValue", Get(exposure_data, "totalValue", 0))
        snapshot_line == <<"snapshot", fmt_currency(total_value), fmt_pct(daily_pnl_pct),
                           Len(positions), Len(hard_alerts)>>
    IN /\ report' = [positions |-> Len(positions),
                     ran |-> TRUE,
                     summaryLine |-> snapshot_line,
                     hardAlertCount |-> Len(hard_alerts),
                     changesSinceLastRun |-> delta_lines,
                     immediateActions |-> hard_alerts,
                     watchlistFlags |-> watch_flags,
                     externalEvents |-> external_events,
                     actionableThought |-> actionable_thought,
                     renderedThought |-> RenderThought(actionable_thought),
                     phaseTransitions |-> phase_transitions,
                     newHeadlinesCount |-> Len(new_headlines),
                     files |-> ReportFiles(outcome)]
       /\ inputs' = [phases |-> IF "phases" \in DOMAIN phases_data
                                THEN [phases_data EXCEPT !.phases =
                                        [i \in 1..Len(phases) |->
                                            AnnotatedRow(phases[i], previous_phase_map)]]
                                ELSE phases_data,
                     positions |-> positions_data,
                     ran |-> TRUE,
                     stops |-> stops_data,
                     drawdown |-> drawdown_data,
                     exposure |-> exposure_data,
                     news |-> news_data]
       /\ locals' = [previous_state |-> previous_state,
                     state_loaded |-> state_loaded,
                     new_headlines |-> new_headlines,
                     ran |-> TRUE,
                     tickers |-> tickers,
                     state_text |-> stateFile,
                     hard_phase_transition_pairs |-> pairs,
                     invocations |-> Invocations(tickers),
                     event_items |-> EventItems(EventSource(state_loaded, new_headlines,
                                                            headlines))]
       /\ stateFile' = StateAfter(stateFile,
                                  save_state(NextState(annotated, all_headline_hashes)),
                                  outcome)
       /\ UNCHANGED <<riskRules, snapshot, phase, phaseConfig, history, brokerage>>

\* main, run to its end
Main(positions_data, stops_data, drawdown_data, exposure_data, phases_out, news_out) ==
    MainSaving(positions_data, stops_data, drawdown_data, exposure_data, phases_out, news_out,
               "complete")

-----------------------------------------------------------------------------
(* get_news.py: deduplicate and the payload main prints *)

\* item.get("url") or f"{ticker}|{title}|{publishedAt}"   (url 0: null)
DedupKey(item) ==
    IF item.url # 0 THEN <<"url", item.url>>
    ELSE <<"key", item.ticker, item.title, item.publishedAt>>

deduplicate(items) ==
    LET keys == [i \in 1..Len(items) |-> DedupKey(items[i])]
        first == {i \in 1..Len(items) : \A j \in 1..(i - 1) : keys[j] # keys[i]}
        kept == SelectSeq([i \in 1..Len(items) |-> i], LAMBDA i : i \in first)
    IN [n \in 1..Len(kept) |-> items[kept[n]]]

\* lines 286-290
NewsAlerts(headlines) ==
    LET hot == SelectSeq(headlines, LAMBDA h : h.score \in {"adversarial", "major"})
    IN [i \in 1..Len(hot) |-> <<hot[i].ticker, hot[i].score, hot[i].title>>]

\* lines 284-306: the payload for the articles the provider returned
GetNews(feed) ==
    LET headlines == deduplicate(feed)
    IN [headlines |-> headlines, alerts |-> NewsAlerts(headlines)]

-----------------------------------------------------------------------------
(* phase_core.py: get_phase *)

\* mutant: Phase 4 without the test that the short average is above the long one
get_phase_NoAverageOrder(price, ema10, sma30, hma_val, hma_prev) ==
    LET phase3_base == price > ema10 /\ price > sma30
        hma_falling == hma_val < hma_prev
    IN IF phase3_base /\ hma_falling THEN 4
       ELSE IF price < ema10 /\ price < sma30 THEN 1
       ELSE IF price > ema10 /\ price < sma30 THEN 2
       ELSE IF phase3_base THEN 3
       ELSE 5

\* mutant: the Phase 1 and Phase 2 tests take equality with the long average
get_phase_EqualityAsBelow(price, ema10, sma30, hma_val, hma_prev) ==
    LET phase3_base == price > ema10 /\ price > sma30
        hma_falling == hma_val < hma_prev
    IN IF phase3_base /\ ema10 > sma30 /\ hma_falling THEN 4
       ELSE IF price < ema10 /\ price <= sma30 THEN 1
       ELSE IF price > ema10 /\ price <= sma30 THEN 2
       ELSE IF phase3_base THEN 3
       ELSE 5

get_phase(price, ema10, sma30, hma_val, hma_prev) ==
    LET phase3_base == price > ema10 /\ price > sma30
        hma_falling == hma_val < hma_prev
    IN IF phase3_base /\ ema10 > sma30 /\ hma_falling THEN 4
       ELSE IF price < ema10 /\ price < sma30 THEN 1
       ELSE IF price > ema10 /\ price < sma30 THEN 2
       ELSE IF phase3_base THEN 3
       ELSE IF price < ema10 /\ price > sma30 THEN 5
       ELSE 5

-----------------------------------------------------------------------------
(* The environment: what the collaborators and the files can hold. *)

Text(n) == [id |-> n, pad |-> FALSE]
Padded(n) == [id |-> n, pad |-> TRUE]

Headline(t, title, source, publishedAt, url, score) ==
    [ticker |-> t, title |-> title, source |-> source, publishedAt |-> publishedAt,
     url |-> url, score |-> score]

\* hA1b is hA1 syndicated under another url, its summary scored differently;
\* hA2 has no url; the source name of hB1 comes padded with blanks
hA1 == Headline("AAA", Text(1), Text(1), 1, 1, "major")
hA1b == Headline("AAA", Text(1), Text(1), 1, 2, "relevant")
hA2 == Headline("AAA", Text(2), Text(1), 2, 0, "adversarial")
hB1 == Headline("BBB", Text(1), Padded(2), 2, 3, "macro")
HeadlineUniverse == {hA1, hA1b, hA2, hB1}

\* n distinct low-score articles on AAA
BulkFeed(n) == [i \in 1..n |-> Headline("AAA", Text(i + 2), Text(1), 1, i + 3, "relevant")]

\* what the news provider returns for the tickers asked about
SmallFeeds == UNION {[1..n -> HeadlineUniverse] : n \in 0..MaxHeadlines}
ShortFeeds == UNION {[1..n -> HeadlineUniverse] : n \in 0..1}
BulkFeeds == {BulkFeed(NEWS_HASH_CAP + k) : k \in 0..BulkExtra}

\* run_json's record for a collaborator that timed out, crashed or printed no JSON
Failed == [error |-> "collaborator failed"]

\* what get_news prints when asked about tickers and the provider holds feed
NewsOutputs(tickers, feeds) ==
    {GetNews(feed) : feed \in {f \in feeds : \A i \in 1..Len(f) : f[i].ticker \in Range(tickers)}}

\* analyze_closes' record: phase with the Hull signals that can accompany it
RowShapes ==
    {<<3, "rising", "neutral">>, <<3, "falling", "bearish">>,
     <<4, "falling", "neutral">>, <<5, "flat", "neutral">>}

ClassifiedRow(t, shape) ==
    [phase |-> JInt(shape[1]), ticker |-> t, hmaTrend |-> shape[2], hmaCross |-> shape[3]]
ErrorRow(t) == [ticker |-> t, error |-> "Insufficient data"]
RowsFor(t) == {ErrorRow(t)} \cup {ClassifiedRow(t, shape) : shape \in RowShapes}
AllRows == UNION {RowsFor(t) : t \in Tickers}

\* what get_phases prints when asked about tickers: one row per ticker, in order
PhasesOutputs(tickers) ==
    {[phases |-> rows] :
        rows \in {r \in [1..Len(tickers) -> AllRows] :
                    \A i \in 1..Len(tickers) : r[i].ticker = tickers[i]}}
    \cup {Failed}

Position(t) == [ticker |-> t]
Summary == [totalValue |-> 100000000, dailyPnlPct |-> -1504]

PositionsOutput(ps) == [positions |-> ps, summary |-> Summary]
PositionsFailed == [positions |-> <<>>, summary |-> EmptyDict, error |-> "collaborator failed"]
HoldA == PositionsOutput(<<Position("AAA")>>)
HoldLowerA == PositionsOutput(<<Position("aaa")>>)
HoldBA == PositionsOutput(<<Position("BBB"), Position("AAA")>>)
HoldNone == PositionsOutput(<<>>)

\* the three risk evaluators: <<stops, drawdown, exposure>>
QuietRisk ==
    <<[alerts |-> <<>>],
      [alert |-> FALSE, dailyPnlPct |-> 0],
      [positions |-> 0, totalValue |-> 0, reEvalFlags |-> <<>>]>>
AlertRisk ==
    <<[alerts |-> <<[ticker |-> "AAA", status |-> "approaching", currentPrice |-> 95000,
                     stop |-> 92000, pctToStop |-> 3160]>>],
      [alert |-> TRUE, dailyPnlPct |-> -1500],
      [positions |-> 1, totalValue |-> 100000000,
       reEvalFlags |-> <<[ticker |-> "AAA", weightPct |-> 25000, reason |-> "concentration"]>>]>>
RiskOutputs == {QuietRisk, AlertRisk}

\* risk-rules.yaml as deployed
RiskRulesFiles ==
    {[kind |-> "absent"],
     [kind |-> "yaml", pairs |-> JArr(<<JArr(<<JInt(3), JInt(5)>>), JArr(<<JInt(4)>>)>>)]}

\* briefing_state.json as the first run finds it: absent, or left damaged or
\* hand-written by an earlier deployment
InitialStateFiles ==
    {[kind |-> "absent"], [kind |-> "unreadable"], [kind |-> "notjson"],
     [kind |-> "json", doc |-> JArr(<<>>)],
     [kind |-> "json", doc |-> JObj(EmptyDict)],
     [kind |-> "json", doc |-> JObj([phaseByTicker |-> JArr(<<>>), newsHashes |-> JStr("x")])],
     [kind |-> "json", doc |-> JObj([phaseByTicker |-> JObj([t \in {"AAA"} |-> JStr("three")])])],
     [kind |-> "json", doc |-> JObj([phaseByTicker |-> JObj([t \in {"AAA"} |-> JInt(3)])])]}

-----------------------------------------------------------------------------
(* Specification of the briefing pipeline. *)

Init ==
    /\ stateFile \in InitialStateFiles
    /\ riskRules = [kind |-> "absent"]
    /\ inputs = NoRun
    /\ locals = NoRun
    /\ report = NoRun
    /\ snapshot = <<0, 0, 0, 0, 0>>
    /\ phase = 0
    /\ phaseConfig = [kind |-> "absent"]
    /\ history = NoHistory
    /\ brokerage = NoAccount

Steady(tickers) ==
    [phases |-> [i \in 1..Len(tickers) |->
                    ClassifiedRow(tickers[i], <<3, "rising", "neutral">>)]]

\* a run on a quiet day for news and risk: any outcome of the phase source
RunOnPhases ==
    \E positions_data \in {HoldNone, HoldA, HoldBA, PositionsFailed} :
      \E phases_out \in PhasesOutputs(TickerList(positions_data.positions)) :
        Main(positions_data, QuietRisk[1], QuietRisk[2], QuietRisk[3], phases_out,
             GetNews(<<>>))

\* a run whose tickers all stay in phase 3: any short feed of the news source
RunOnNews ==
    \E positions_data \in {HoldA, HoldBA} :
      \E news_out \in NewsOutputs(TickerList(positions_data.positions), SmallFeeds) :
        Main(positions_data, QuietRisk[1], QuietRisk[2], QuietRisk[3],
             Steady(TickerList(positions_data.positions)), news_out)

\* a run on one holding: the risk evaluators alert or not, phase and news
\* sources answer or fail
RunOnRisk ==
    \E positions_data \in {HoldA, HoldLowerA}, risk \in RiskOutputs :
      \E sources \in {<<[phases |-> <<ClassifiedRow("AAA", <<4, "falling", "neutral">>)>>],
                          GetNews(<<hA1>>)>>,
                        <<Failed, Failed>>} :
        Main(positions_data, risk[1], risk[2], risk[3], sources[1], sources[2])

Next == RunOnPhases \/ RunOnNews \/ RunOnRisk

Spec == Init /\ [][Next]_vars

-----------------------------------------------------------------------------
(* Specification of the pipeline under either rules file. *)

InitRules ==
    /\ stateFile \in InitialStateFiles
    /\ riskRules \in RiskRulesFiles
    /\ inputs = NoRun
    /\ locals = NoRun
    /\ report = NoRun
    /\ snapshot = <<0, 0, 0, 0, 0>>
    /\ phase = 0
    /\ phaseConfig = [kind |-> "absent"]
    /\ history = NoHistory
    /\ brokerage = NoAccount

NextRules == RunOnPhases

SpecRules == InitRules /\ [][NextRules]_vars

-----------------------------------------------------------------------------
(* Specification of the pipeline around the cap of the fingerprint history. *)

\* a run whose news source returns at most one article, or more than the cap
RunOnBulk ==
    \E positions_data \in {HoldA, HoldBA} :
      \E news_out \in NewsOutputs(TickerList(positions_data.positions),
                                  ShortFeeds \cup BulkFeeds) :
        Main(positions_data, QuietRisk[1], QuietRisk[2], QuietRisk[3],
             Steady(TickerList(positions_data.positions)), news_out)

NextCap == RunOnBulk

SpecCap == Init /\ [][NextCap]_vars

-----------------------------------------------------------------------------
(* Specification of the phase classifier alone. *)

Levels == 0..MaxLevel

InitClassify ==
    /\ stateFile = [kind |-> "absent"]
    /\ riskRules = [kind |-> "absent"]
    /\ inputs = NoRun
    /\ locals = NoRun
    /\ report = NoRun
    /\ snapshot \in Levels \X Levels \X Levels \X Levels \X Levels
    /\ phase = 0
    /\ phaseConfig = [kind |-> "absent"]
    /\ history = NoHistory
    /\ brokerage = NoAccount

Classify ==
    /\ phase = 0
    /\ phase' = get_phase(snapshot[1], snapshot[2], snapshot[3], snapshot[4], snapshot[5])
    /\ UNCHANGED <<stateFile, riskRules, inputs, locals, report, snapshot,
                   phaseConfig, history, brokerage>>

NextClassify == Classify

SpecClassify == InitClassify /\ [][NextClassify]_vars

-----------------------------------------------------------------------------
(* What a state file and a payload say, read off their content. *)

IsStateObject(file) == file.kind = "json" /\ file.doc.type = "object"

\* the phase the file records for ticker T (0: none)
PersistedPhase(file, T) ==
    IF /\ IsStateObject(file)
       /\ "phaseByTicker" \in DOMAIN file.doc.val
       /\ file.doc.val.phaseByTicker.type = "object"
       /\ T \in DOMAIN file.doc.val.phaseByTicker.val
       /\ file.doc.val.phaseByTicker.val[T].type = "int"
    THEN file.doc.val.phaseByTicker.val[T].val
    ELSE 0

\* the tickers the file records anything for
PersistedTickers(file) ==
    IF /\ IsStateObject(file)
       /\ "phaseByTicker" \in DOMAIN file.doc.val
       /\ file.doc.val.phaseByTicker.type = "object"
    THEN DOMAIN file.doc.val.phaseByTicker.val
    ELSE {}

\* the fingerprint list the file records (empty: none)
PersistedHashList(file) ==
    IF /\ IsStateObject(file)
       /\ "newsHashes" \in DOMAIN file.doc.val
       /\ file.doc.val.newsHashes.type = "array"
    THEN file.doc.val.newsHashes.val
    ELSE <<>>

PersistedHashes(file) == Range(PersistedHashList(file))

\* the rows and headlines a payload carries
RowsOf(payload) == IF "phases" \in DOMAIN payload THEN payload.phases ELSE <<>>
HeadlinesOf(payload) == IF "headlines" \in DOMAIN payload THEN payload.headlines ELSE <<>>

\* the phase the payload classifies ticker T as (0: none, or an error record)
ClassifiedPhase(payload, T) ==
    LET rows == RowsOf(payload)
        hits == {i \in 1..Len(rows) : rows[i].ticker = T /\ "error" \notin DOMAIN rows[i]}
    IN IF hits = {} THEN 0 ELSE rows[CHOOSE i \in hits : TRUE].phase.val

\* same (ticker, title, source, publishedAt)
SameIdentity(a, b) ==
    /\ a.ticker = b.ticker
    /\ a.title = b.title
    /\ a.source = b.source
    /\ a.publishedAt = b.publishedAt

-----------------------------------------------------------------------------
(* Claims. *)

\* C1: a run reports the line "T phase transition p -> q" exactly when the
\* state file it starts from maps T to p, its phase payload classifies T as q,
\* and p differs from q; a phase row carries previousPhase only if the state
\* file it starts from has an entry for the row's ticker.
C1_TransitionReportedIff ==
    [][report'.ran =>
        /\ \A T \in Tickers, p \in Phases, q \in Phases :
              (<<"phase_transition", T, p, q>> \in Range(report'.phaseTransitions))
              <=> (/\ PersistedPhase(stateFile, T) = p
                   /\ ClassifiedPhase(inputs'.phases, T) = q
                   /\ p # q)
        /\ \A line \in Range(report'.phaseTransitions) :
              line[2] \in Tickers /\ line[3] \in Phases /\ line[4] \in Phases
        /\ \A i \in 1..Len(RowsOf(inputs'.phases)) :
              "previousPhase" \in DOMAIN RowsOf(inputs'.phases)[i]
              => /\ RowsOf(inputs'.phases)[i].ticker \in PersistedTickers(stateFile)
                 /\ RowsOf(inputs'.phases)[i].previousPhase
                      = PersistedPhase(stateFile, RowsOf(inputs'.phases)[i].ticker)
    ]_vars

\* C1 witness: of two classified tickers with persisted phases, one moved and
\* one stayed, and the run reported the one transition.
C1_Witness ==
    /\ report.ran
    /\ Len(report.phaseTransitions) = 1
    /\ Len(RowsOf(inputs.phases)) = 2
    /\ \A i \in 1..2 : "previousPhase" \in DOMAIN RowsOf(inputs.phases)[i]

\* C2: every reported transition (p, q) has its line in the hard alerts when
\* (p, q) is in the configured hard set and in the watch flags otherwise,
\* never in both and never in neither; without a rules file the hard set is
\* {(3,4), (4,5)}.
C2_TransitionInExactlyOneList ==
    report.ran =>
        /\ riskRules.kind = "absent"
              => locals.hard_phase_transition_pairs = {<<3, 4>>, <<4, 5>>}
        /\ \A line \in Range(report.phaseTransitions) :
              LET inHard == <<"phase_alert", line>> \in Range(report.immediateActions)
                  inWatch == <<"transition_flag", line>> \in Range(report.watchlistFlags)
              IN /\ inHard <=> <<line[3], line[4]>> \in locals.hard_phase_transition_pairs
                 /\ inWatch <=> ~inHard

\* C2 witness: persisted AAA = 3, AAA classified 4 under the default set: the
\* line is a hard alert; in the same run another transition is a watch flag.
C2_Witness ==
    /\ report.ran
    /\ riskRules.kind = "absent"
    /\ <<"phase_alert", <<"phase_transition", "AAA", 3, 4>>>> \in Range(report.immediateActions)
    /\ \E line \in Range(report.phaseTransitions) :
          <<"transition_flag", line>> \in Range(report.watchlistFlags)

\* the fields of the indicator tuple
Price == snapshot[1]
EmaShort == snapshot[2]
SmaLong == snapshot[3]
Hull == snapshot[4]
HullPrev == snapshot[5]

Phase4Condition ==
    Price > EmaShort /\ Price > SmaLong /\ EmaShort > SmaLong /\ Hull < HullPrev

\* C3: for every indicator tuple get_phase returns a value in 1..5, and it
\* returns 4 exactly when price > emaShort, price > smaLong, emaShort > smaLong
\* and hull < hullPrev all hold.
C3_PhaseTotalAndFourIff ==
    phase # 0 => /\ phase \in 1..5
                 /\ phase = 4 <=> Phase4Condition

\* C3 witness: a tuple classified as Phase 4, beside one above both averages,
\* Hull falling, that is not (the averages are not in order).
C3_Witness ==
    /\ phase = 4
    /\ Phase4Condition

\* C4: outside the Phase 4 condition get_phase returns 1 when the price is
\* below both averages, 2 when above the short and below the long one, 3 when
\* above both, and 5 in every other case, which covers every tuple whose price
\* equals one of the averages.
C4_PhasesBelowFour ==
    (phase # 0 /\ ~Phase4Condition) =>
        /\ (Price < EmaShort /\ Price < SmaLong) => phase = 1
        /\ (Price > EmaShort /\ Price < SmaLong) => phase = 2
        /\ (Price > EmaShort /\ Price > SmaLong) => phase = 3
        /\ ~(\/ Price < EmaShort /\ Price < SmaLong
             \/ Price > EmaShort /\ Price < SmaLong
             \/ Price > EmaShort /\ Price > SmaLong) => phase = 5
        /\ (Price = EmaShort \/ Price = SmaLong) => phase = 5

\* C4 witness: a price equal to the long average and above the short one
\* resolves to Phase 5.
C4_Witness ==
    /\ phase = 5
    /\ Price = SmaLong
    /\ Price > EmaShort

\* C5: in every run a headline of the payload is counted as new exactly when
\* its fingerprint is absent from the newsHashes the previous run persisted,
\* the count is the number of such headlines, and two headlines that agree on
\* (ticker, title, source, publishedAt) have the same fingerprint whatever
\* their url and score.
C5_NewIffFingerprintAbsent ==
    [][report'.ran =>
        LET hs == HeadlinesOf(inputs'.news)
            prev == PersistedHashes(stateFile)
        IN /\ \A i \in 1..Len(hs) :
                 hs[i] \in Range(locals'.new_headlines) <=> headline_hash(hs[i]) \notin prev
           /\ report'.newHeadlinesCount =
                 Cardinality({i \in 1..Len(hs) : headline_hash(hs[i]) \notin prev})
           /\ \A i, j \in 1..Len(hs) :
                 SameIdentity(hs[i], hs[j]) => headline_hash(hs[i]) = headline_hash(hs[j])]_vars

\* C5 witness: the previous run persisted the fingerprint of hA1; this run's
\* payload holds its syndicated copy hA1b (other url, other score) and hA2:
\* only hA2 is new.
C5_Witness ==
    /\ report.ran
    /\ headline_hash(hA1) \in PersistedHashes(locals.state_text)
    /\ inputs.news.headlines = <<hA1b, hA2>>
    /\ locals.new_headlines = <<hA2>>
    /\ report.newHeadlinesCount = 1

\* C6: after each run the persisted newsHashes is the union of the
\* fingerprints the previous run persisted and those seen in this run: while
\* that union stays within the cap, a fingerprint persisted earlier is still
\* persisted when its headline is missing from this run's payload.
C6_PersistedIsUnionWithPrevious ==
    [][report'.ran =>
        LET prev == PersistedHashes(stateFile)
            seen == Range(AllHeadlineHashes(HeadlinesOf(inputs'.news)))
        IN Cardinality(prev \cup seen) <= NEWS_HASH_CAP =>
              PersistedHashes(stateFile') = prev \cup seen]_vars

\* C7: after any sequence of runs, whatever the number of headlines per run,
\* the persisted newsHashes list holds at most 500 fingerprints and no
\* fingerprint twice.
C7_HashesCappedAndDistinct ==
    report.ran =>
        LET list == PersistedHashList(stateFile)
        IN /\ Len(list) <= NEWS_HASH_CAP
           /\ Cardinality(Range(list)) = Len(list)

\* C7 witness: a run whose payload carried more distinct fingerprints than the
\* cap left exactly 500 of them persisted.
C7_Witness ==
    /\ report.ran
    /\ Cardinality(Range(AllHeadlineHashes(HeadlinesOf(inputs.news)))) > NEWS_HASH_CAP
    /\ Len(PersistedHashList(stateFile)) = NEWS_HASH_CAP

\* the run that has just completed found no prior state
BaselineRun == report.ran /\ ~locals.state_loaded

\* C8: a run with no prior state builds its external events from all the
\* headlines of its payload, and (the payload holding at most 500 distinct
\* fingerprints) the run that follows it counts none of those headlines as new
\* and lists none of them again in its external events.
C8_BaselineShowsAllOnce ==
    [][/\ (report'.ran /\ ~locals'.state_loaded) =>
            /\ locals'.event_items = EventItems(HeadlinesOf(inputs'.news))
            /\ report'.externalEvents = build_external_events(HeadlinesOf(inputs'.news))
       /\ (/\ BaselineRun
           /\ report'.ran
           /\ Cardinality(Range(AllHeadlineHashes(HeadlinesOf(inputs.news))))
                 <= NEWS_HASH_CAP) =>
            \A h \in Range(HeadlinesOf(inputs.news)) :
               /\ h \notin Range(locals'.new_headlines)
               /\ h \notin Range(locals'.event_items)
               /\ (h \in Range(HeadlinesOf(inputs'.news)) =>
                      report'.newHeadlinesCount < Len(HeadlinesOf(inputs'.news)))]_vars

\* C8 witness: the run after a baseline run that listed hA1 receives hA1 again,
\* counts nothing as new and lists no external event.
C8_Witness ==
    /\ report.ran
    /\ locals.state_loaded
    /\ PersistedHashList(locals.state_text) = <<headline_hash(hA1)>>
    /\ inputs.news.headlines = <<hA1>>
    /\ report.newHeadlinesCount = 0
    /\ report.externalEvents = <<>>

\* the payload holds a headline set twice: its second half repeats its first
Doubled(hs) ==
    /\ Len(hs) > 0
    /\ Len(hs) % 2 = 0
    /\ \A i \in 1..(Len(hs) \div 2) : SameIdentity(hs[i], hs[i + Len(hs) \div 2])

\* C9: a run whose news payload holds each headline of a set twice reports the
\* new-headline count, and persists the fingerprint set, of a run fed the set
\* once.
C9_TwiceAsOnce ==
    (report.ran /\ Doubled(HeadlinesOf(inputs.news))) =>
        LET hs == HeadlinesOf(inputs.news)
            once == SubSeq(hs, 1, Len(hs) \div 2)
            prev == PersistedHashes(locals.state_text)
        IN /\ report.newHeadlinesCount = Len(NewHeadlines(once, prev))
           /\ (locals.state_loaded =>
                 <<"new_scored_headlines", Len(NewHeadlines(once, prev))>>
                    \in Range(report.changesSinceLastRun))
           /\ PersistedHashes(stateFile) = Range(LatestNewsHashes(AllHeadlineHashes(once)))

\* the state file holds no state object, or an empty one
NoPriorState(file) == ~IsStateObject(file) \/ file.doc.val = EmptyDict

\* C10: load_state yields the empty state for an absent, unreadable, non-JSON
\* or non-object state file, and the run is then a baseline run: no row gets a
\* previousPhase, no transition is reported, the delta is the "Baseline run"
\* line and every headline is new. A phaseByTicker that is not a map gives no
\* previous phase; a newsHashes that is not a list gives no known fingerprint.
C10_DamagedStateIsBaseline ==
    [][report'.ran =>
        LET rows == RowsOf(inputs'.phases)
            noPrevious == /\ \A i \in 1..Len(rows) : "previousPhase" \notin DOMAIN rows[i]
                          /\ report'.phaseTransitions = <<>>
            allNew == report'.newHeadlinesCount = Len(HeadlinesOf(inputs'.news))
        IN /\ NoPriorState(stateFile) =>
                /\ locals'.previous_state = EmptyDict
                /\ noPrevious
                /\ allNew
                /\ report'.changesSinceLastRun = << <<"baseline_run">> >>
           /\ (/\ IsStateObject(stateFile)
               /\ "phaseByTicker" \in DOMAIN stateFile.doc.val
               /\ stateFile.doc.val.phaseByTicker.type # "object") => noPrevious
           /\ (/\ IsStateObject(stateFile)
               /\ "newsHashes" \in DOMAIN stateFile.doc.val
               /\ stateFile.doc.val.newsHashes.type # "array") => allNew]_vars

\* C10 witness: a run over a state file that is not JSON classified AAA and
\* received a headline: baseline line, the headline new, no previousPhase.
C10_Witness ==
    /\ report.ran
    /\ locals.state_text.kind = "notjson"
    /\ ClassifiedPhase(inputs.phases, "AAA") # 0
    /\ inputs.news.headlines # <<>>
    /\ report.changesSinceLastRun = << <<"baseline_run">> >>
    /\ report.newHeadlinesCount = Len(inputs.news.headlines)

\* C10 second witness case: a state object whose phaseByTicker and newsHashes
\* have the wrong types was read by a run that classified AAA.
C10_WrongTypesRead ==
    /\ report.ran
    /\ IsStateObject(locals.state_text)
    /\ "newsHashes" \in DOMAIN locals.state_text.doc.val
    /\ locals.state_text.doc.val.newsHashes.type = "string"
    /\ ClassifiedPhase(inputs.phases, "AAA") # 0

-----------------------------------------------------------------------------
(* run_morning_brief.py: run_json, and the pipeline when collaborators fail *)

\* How a collaborator process ends. kind "raised": subprocess.run raised
\* (timeout, or the command could not start). kind "exited": rc, stderr ("" or
\* a text) and stdout, which is empty, not JSON ("garbage"), or a JSON object
\* whose content is payload.
Raised == [kind |-> "raised"]
Exited(rc, stdout, stderr) == [kind |-> "exited", rc |-> rc, stdout |-> stdout, stderr |-> stderr]
NoOutput == [kind |-> "empty"]
Garbage == [kind |-> "garbage"]
Printed(payload) == [kind |-> "json", payload |-> payload]

\* parsed.setdefault(key, value)
SetDefault(d, key, value) == IF key \in DOMAIN d THEN d ELSE d @@ (key :> value)

\* mutant: an exception of subprocess.run yields the empty record
run_json_SilentOnRaise(proc) ==
    IF proc.kind = "raised" THEN EmptyDict
    ELSE IF proc.stdout.kind = "json" THEN proc.stdout.payload ELSE EmptyDict

run_json(proc) ==
    IF proc.kind = "raised" THEN [error |-> "exception text", _command |-> "cmd"]
    ELSE LET parsed == IF proc.stdout.kind = "json" THEN proc.stdout.payload
                       ELSE IF proc.stdout.kind = "garbage"
                            THEN [error |-> "Invalid JSON output", rawStdout |-> "stdout"]
                       ELSE EmptyDict
             failed == IF proc.rc # 0
                       THEN SetDefault(parsed, "error",
                                       IF proc.stderr # "" THEN proc.stderr
                                       ELSE "Command failed with exit code")
                       ELSE parsed
         IN IF proc.stderr # "" THEN SetDefault(failed, "_stderr", proc.stderr) ELSE failed

\* the ways a collaborator fails: timeout or no start, a crash with a
\* traceback, a silent non-zero exit, output that is not JSON
Crashes ==
    {Raised, Exited(1, NoOutput, "traceback"), Exited(2, NoOutput, ""),
     Exited(0, Garbage, ""), Exited(1, Garbage, "traceback")}

Collaborators == {"positions", "stops", "drawdown", "exposure", "phases", "news"}

\* get_positions prints an error document and exits 1 (lines 262-300);
\* get_phases without yfinance prints one error row per ticker and exits 1
OwnFailure(c, tickers) ==
    IF c = "positions"
    THEN {Exited(1, Printed([positions |-> <<>>, summary |-> EmptyDict, error |-> "auth"]), "")}
    ELSE IF c = "phases"
    THEN {Exited(1, Printed([phases |-> [i \in 1..Len(tickers) |->
                                           [ticker |-> tickers[i], error |-> "yfinance required"]]]),
                 "")}
    ELSE {}

FailingProcs(c, tickers) == Crashes \cup OwnFailure(c, tickers)

\* what each collaborator prints on a day when it works and everything alerts
Working(c) ==
    IF c = "positions" THEN Exited(0, Printed(HoldA), "")
    ELSE IF c = "stops" THEN Exited(0, Printed(AlertRisk[1]), "")
    ELSE IF c = "drawdown" THEN Exited(0, Printed(AlertRisk[2]), "")
    ELSE IF c = "exposure" THEN Exited(0, Printed(AlertRisk[3]), "warning")
    ELSE IF c = "phases"
    THEN Exited(0, Printed([phases |-> <<ClassifiedRow("AAA", <<4, "falling", "bearish">>)>>]), "")
    ELSE Exited(0, Printed(GetNews(<<hA1, hA2>>)), "")

\* the manner of failing in which a collaborator takes its own error exit
OwnExit == [kind |-> "own"]

\* a run in which the collaborators of `down` fail, all in the manner `how`
\* (a crash, or the collaborator's own error exit where it has one)
RunOnFailures ==
    \E down \in SUBSET Collaborators, how \in Crashes \cup {OwnExit} :
      LET proc(c) ==
            IF c \notin down THEN Working(c)
            ELSE IF how = OwnExit
                 THEN IF OwnFailure(c, <<"AAA">>) = {} THEN Raised
                      ELSE CHOOSE p \in OwnFailure(c, <<"AAA">>) : TRUE
                 ELSE how
      IN Main(run_json(proc("positions")), run_json(proc("stops")),
              run_json(proc("drawdown")), run_json(proc("exposure")),
              run_json(proc("phases")), run_json(proc("news")))

\* a fresh deployment: no state file, no rules file
InitFail ==
    /\ stateFile = [kind |-> "absent"]
    /\ riskRules = [kind |-> "absent"]
    /\ inputs = NoRun
    /\ locals = NoRun
    /\ report = NoRun
    /\ snapshot = <<0, 0, 0, 0, 0>>
    /\ phase = 0
    /\ phaseConfig = [kind |-> "absent"]
    /\ history = NoHistory
    /\ brokerage = NoAccount

NextFail == RunOnFailures

SpecFail == InitFail /\ [][NextFail]_vars

\* the records run_json returns for a failing collaborator c
ErrorRecords(c) == {run_json(p) : p \in FailingProcs(c, <<"AAA">>)}

Kinds(lines) == {lines[i][1] : i \in 1..Len(lines)}

\* the report and the state show nothing that comes from collaborator c
TreatedAsEmpty(c) ==
    IF c = "positions"
    THEN /\ report.positions = 0
         /\ locals.tickers = <<>>
         /\ report.summaryLine[2] = fmt_currency(Get(inputs.exposure, "totalValue", 0))
    ELSE IF c = "stops" THEN "stop" \notin Kinds(report.immediateActions)
    ELSE IF c = "drawdown"
    THEN "portfolio_daily_move" \notin Kinds(report.immediateActions)
    ELSE IF c = "exposure" THEN "concentration" \notin Kinds(report.watchlistFlags)
    ELSE IF c = "phases"
    THEN /\ report.phaseTransitions = <<>>
         /\ Kinds(report.watchlistFlags) \subseteq {"concentration"}
         /\ "phase_alert" \notin Kinds(report.immediateActions)
         /\ PersistedTickers(stateFile) = {}
         /\ report.actionableThought \in {<<"address_hard_alerts">>, <<"None">>}
    ELSE /\ report.newHeadlinesCount = 0
         /\ report.externalEvents = <<>>
         /\ "news_alert" \notin Kinds(report.immediateActions)
         /\ PersistedHashList(stateFile) = <<>>

\* C11: for every failing collaborator (timeout, no start, non-zero exit,
\* output that is not JSON) run_json returns a record with an error field;
\* whatever subset of the collaborators fails, the run completes with its
\* reports and a complete state document written, the report shows nothing
\* from a failed collaborator, and the error record stands under the report's
\* inputs entry of that collaborator.
C11_FailuresDegrade ==
    /\ \A c \in Collaborators : \A r \in ErrorRecords(c) : "error" \in DOMAIN r
    /\ report.ran =>
          /\ IsStateObject(stateFile)
          /\ {"updatedAt", "phaseByTicker", "newsHashes"} \subseteq DOMAIN stateFile.doc.val
          /\ \A c \in Collaborators :
                "error" \in DOMAIN inputs[c] =>
                    /\ inputs[c] \in ErrorRecords(c)
                    /\ TreatedAsEmpty(c)

\* C11 witness: the stop check and the news source failed in a run whose other
\* collaborators answered: the drawdown line is the only hard alert.
C11_Witness ==
    /\ report.ran
    /\ "error" \in DOMAIN inputs.stops
    /\ "error" \in DOMAIN inputs.news
    /\ "error" \notin DOMAIN inputs.phases
    /\ Kinds(report.immediateActions) = {"portfolio_daily_move"}
    /\ report.positions = 1

-----------------------------------------------------------------------------
(* Specification of the pipeline when the process can end within save_state. *)

\* a run on a quiet day with at most one headline, ended at any point of
\* save_state or completed
RunInterruptible ==
    \E positions_data \in {HoldA, HoldBA}, outcome \in SaveOutcomes :
      \E news_out \in NewsOutputs(TickerList(positions_data.positions), ShortFeeds) :
        MainSaving(positions_data, QuietRisk[1], QuietRisk[2], QuietRisk[3],
                   Steady(TickerList(positions_data.positions)), news_out, outcome)

NextCrash == RunInterruptible

SpecCrash == InitFail /\ [][NextCrash]_vars

\* the complete document the last run had to save
DocumentOfRun ==
    save_state(NextState(PhaseRows(RowsOf(inputs.phases)),
                         AllHeadlineHashes(HeadlinesOf(inputs.news))))

\* C12: wherever within save_state the process ends, the state file afterwards
\* is the file the run found or the complete new document, and it is never a
\* text that load_state cannot parse.
C12_NoTornState ==
    report.ran =>
        /\ stateFile = locals.state_text \/ stateFile = DocumentOfRun
        /\ stateFile.kind # "notjson"

-----------------------------------------------------------------------------
(* Specification of the pipeline over every phase a ticker can be in. *)

\* one record per phase, with the Hull trend that goes with it
ThoughtShapes == {<<p, IF p = 4 THEN "falling" ELSE "rising", "neutral">> : p \in Phases}

\* a run without news: each ticker in any phase or short of data; with one
\* holding the risk evaluators alert or not
RunOnThought ==
    \E book \in {<<HoldA, QuietRisk>>, <<HoldA, AlertRisk>>, <<HoldBA, QuietRisk>>} :
      LET tickers == TickerList(book[1].positions)
          risk == book[2]
      IN \E rows \in [1..Len(tickers) ->
                         {ErrorRow(t) : t \in Tickers}
                         \cup {ClassifiedRow(t, shape) : t \in Tickers, shape \in ThoughtShapes}] :
            /\ \A i \in 1..Len(tickers) : rows[i].ticker = tickers[i]
            /\ Main(book[1], risk[1], risk[2], risk[3], [phases |-> rows], GetNews(<<>>))

NextThought == RunOnThought

SpecThought == InitFail /\ [][NextThought]_vars

\* the phases the run's payload classifies some ticker as
ClassifiedPhases ==
    {ClassifiedPhase(inputs.phases, T) : T \in Tickers} \ {0}

\* C13: the actionable thought is the hard-alert deflection whenever the final
\* hard-alert list (phase hard-transition alerts included) is not empty;
\* otherwise the review-stops message if a classified ticker is in phase 4 or
\* 5; otherwise the wait-for-setups message if one is in phase 3; otherwise
\* none, rendered as "No high-confidence action today.".
C13_ThoughtPriority ==
    report.ran =>
        /\ report.actionableThought[1] =
              (IF report.immediateActions # <<>> THEN "address_hard_alerts"
               ELSE IF ClassifiedPhases \cap {4, 5} # {} THEN "weakening"
               ELSE IF 3 \in ClassifiedPhases THEN "phase3_wait"
               ELSE "None")
        /\ report.renderedThought =
              (IF report.actionableThought = <<"None">> THEN <<"no_action_today">>
               ELSE report.actionableThought)

\* C13 witness: the only hard alert of the run is the phase alert of AAA going
\* from 3 to 4 while BBB is in phase 3: the thought is the deflection.
C13_Witness ==
    /\ report.ran
    /\ report.immediateActions = << <<"phase_alert", <<"phase_transition", "AAA", 3, 4>>>> >>
    /\ ClassifiedPhase(inputs.phases, "BBB") = 3
    /\ report.actionableThought = <<"address_hard_alerts">>

-----------------------------------------------------------------------------
(* check_stops.py.  Prices are integers counting thousandths, percentages  *)
(* inside the evaluator integers counting hundredths.                       *)

\* Decimal.quantize(Decimal("0.01")) of num/den under the default context
\* (ROUND_HALF_EVEN), in hundredths; num >= 0, den > 0
QuantizeHalfEven(num, den) ==
    LET scaled == num * 100
        floor == scaled \div den
        twice == 2 * (scaled % den)
    IN IF twice < den THEN floor
       ELSE IF twice > den THEN floor + 1
       ELSE IF floor % 2 = 0 THEN floor ELSE floor + 1

RECURSIVE Pow2Mod100(_)
Pow2Mod100(k) == IF k = 0 THEN 1 ELSE (2 * Pow2Mod100(k - 1)) % 100

\* the number of binary places of the double nearest to h/100 (53 significant bits)
RECURSIVE BinaryPlaces(_)
BinaryPlaces(h) ==
    IF h >= 200 THEN BinaryPlaces(h \div 2) - 1
    ELSE IF h < 100 THEN BinaryPlaces(2 * h) + 1
    ELSE 52

\* float(d) for the decimal d = h/100: the sign of (nearest double - d).
\* The double is round(h * 2^k / 100) / 2^k; the remainder of h * 2^k by 100
\* tells the direction of the rounding (50 cannot occur: h * 2^k is a multiple
\* of 4).
FloatError(h) ==
    IF h = 0 THEN 0
    ELSE LET r == ((h % 100) * Pow2Mod100(BinaryPlaces(h))) % 100
         IN IF r = 0 THEN 0 ELSE IF r < 50 THEN -1 ELSE 1

\* float(h/100) <= Decimal(t/100): Python compares the exact values
FloatLeqDecimal(h, t) == h < t \/ (h = t /\ FloatError(h) <= 0)

DefaultStopPct == 500

\* load_config of check_stops.py: hard_alerts.stop_approaching_pct, in
\* hundredths, 5.0 without a readable rules file
stop_approaching_pct(rules) ==
    IF rules.kind = "yaml" THEN Get(rules, "stop_approaching_pct", DefaultStopPct)
    ELSE DefaultStopPct

\* a check that reads the direction: a short is hit at or above its stop
StopAlerts_DirectionAware(p, threshold_pct) ==
    IF "stop" \notin DOMAIN p THEN <<>>
    ELSE LET current == Get(p, "currentPrice", 0)
             stop_dec == p.stop
             short == Get(p, "direction", "long") = "short"
         IN IF current <= 0 \/ stop_dec <= 0 THEN <<>>
            ELSE LET gap == IF short THEN stop_dec - current ELSE current - stop_dec
                     pct_to_stop ==
                        IF gap >= 0 THEN QuantizeHalfEven(gap * 100, current)
                        ELSE -QuantizeHalfEven((-gap) * 100, current)
                     status == IF gap <= 0 THEN "hit"
                               ELSE IF FloatLeqDecimal(pct_to_stop, threshold_pct)
                                    THEN "approaching"
                               ELSE "ok"
                 IN IF status = "ok" THEN <<>>
                    ELSE << [ticker |-> p.ticker, status |-> status,
                              currentPrice |-> current, stop |-> stop_dec,
                              pctToStop |-> pct_to_stop * 10] >>

\* lines 50-72: the alerts one position adds; a position without a stop
\* carries no stop field
StopAlerts(p, threshold_pct) ==
    IF "stop" \notin DOMAIN p THEN <<>>
    ELSE LET current == Get(p, "currentPrice", 0)
             stop_dec == p.stop
         IN IF current <= 0 \/ stop_dec <= 0 THEN <<>>
            ELSE LET pct_to_stop ==
                        IF current >= stop_dec
                        THEN QuantizeHalfEven((current - stop_dec) * 100, current)
                        ELSE -QuantizeHalfEven((stop_dec - current) * 100, current)
                     status == IF current <= stop_dec THEN "hit"
                               ELSE IF FloatLeqDecimal(pct_to_stop, threshold_pct)
                                    THEN "approaching"
                               ELSE "ok"
                 IN IF status = "ok" THEN <<>>
                    ELSE << [ticker |-> p.ticker, status |-> status,
                              currentPrice |-> current, stop |-> stop_dec,
                              pctToStop |-> pct_to_stop * 10] >>

check_stops(positions, threshold_pct) ==
    IF positions = <<>> THEN [alerts |-> <<>>, error |-> "No positions"]
    ELSE [alerts |-> FlatMap(positions, LAMBDA p : StopAlerts(p, threshold_pct))]

\* <<currentPrice, stop>> of a holding; stop 0 stands for a holding without one
Quotes ==
    {<<95000, 92000>>, <<92000, 92000>>, <<90000, 92000>>, <<100000, 95000>>,
     <<100000, 94000>>, <<95000, 0>>}

Holding(t, quote) ==
    IF quote[2] = 0 THEN [ticker |-> t, currentPrice |-> quote[1]]
    ELSE [ticker |-> t, currentPrice |-> quote[1], stop |-> quote[2]]

StopBooks ==
    {<<Holding("AAA", q)>> : q \in Quotes}
    \cup {<<Holding("BBB", qb), Holding("AAA", qa)>> : qb \in Quotes, qa \in Quotes}

\* risk-rules.yaml: absent, or setting the stop threshold to 5, 3.16 or 4.1
StopRulesFiles ==
    {[kind |-> "absent"]}
    \cup {[kind |-> "yaml", pairs |-> JArr(<<>>), stop_approaching_pct |-> t] :
            t \in {500, 316, 410}}

InitStops ==
    /\ stateFile = [kind |-> "absent"]
    /\ riskRules \in StopRulesFiles
    /\ inputs = NoRun
    /\ locals = NoRun
    /\ report = NoRun
    /\ snapshot = <<0, 0, 0, 0, 0>>
    /\ phase = 0
    /\ phaseConfig = [kind |-> "absent"]
    /\ history = NoHistory
    /\ brokerage = NoAccount

\* a quiet run whose stop check evaluates the holdings the position source printed
RunOnStops ==
    \E book \in StopBooks :
        Main(PositionsOutput(book), check_stops(book, stop_approaching_pct(riskRules)),
             QuietRisk[2], QuietRisk[3], Steady(TickerList(book)), GetNews(<<>>))

NextStops == RunOnStops

SpecStops == InitStops /\ [][NextStops]_vars

\* the alerts the stop check printed for holding p
AlertsFor(p) == SelectSeq(inputs.stops.alerts, LAMBDA a : a.ticker = p.ticker)

\* (currentPrice - stop) / currentPrice * 100 quantized to 2 decimals, in hundredths
PctToStop(p) == QuantizeHalfEven((p.currentPrice - p.stop) * 100, p.currentPrice)

\* C14: for each position with a stop, check_stops reports hit when
\* currentPrice <= stop, approaching when currentPrice > stop and pctToStop
\* (quantized to 2 decimals) is at most the threshold, equality included, and
\* nothing otherwise; a position without a stop gets no alert.
C14_StopStatus ==
    report.ran =>
        \A i \in 1..Len(inputs.positions.positions) :
            LET p == inputs.positions.positions[i]
                alerts == AlertsFor(p)
            IN IF "stop" \notin DOMAIN p THEN alerts = <<>>
               ELSE IF p.currentPrice <= p.stop
                    THEN Len(alerts) = 1 /\ alerts[1].status = "hit"
               ELSE IF PctToStop(p) <= stop_approaching_pct(riskRules)
                    THEN /\ Len(alerts) = 1
                         /\ alerts[1].status = "approaching"
                         /\ alerts[1].pctToStop = PctToStop(p) * 10
               ELSE alerts = <<>>

\* price 95, stop 92 and the default threshold 5: pctToStop 3.16, approaching
C14_ExampleReached ==
    /\ report.ran
    /\ riskRules.kind = "absent"
    /\ inputs.stops.alerts = << [ticker |-> "AAA", status |-> "approaching", currentPrice |-> 95000,
                                 stop |-> 92000, pctToStop |-> 3160] >>

-----------------------------------------------------------------------------
(* portfolio_drawdown.py.  Percentages are integers counting thousandths.   *)

\* workspace/portfolio/positions.json as the evaluators find it
NoPositionsFile == [kind |-> "absent"]
OnFile(payload) == [kind |-> "json", data |-> payload]

DefaultDailyDownPct == 1000

\* load_config of portfolio_drawdown.py: hard_alerts.portfolio_daily_down_pct
portfolio_daily_down_pct(rules) ==
    IF rules.kind = "yaml" THEN Get(rules, "portfolio_daily_down_pct", DefaultDailyDownPct)
    ELSE DefaultDailyDownPct

\* Decimal.quantize(Decimal("0.01")) of a value in thousandths, in thousandths
QuantizeCents(v) ==
    IF v >= 0 THEN 10 * QuantizeHalfEven(v, 1000) ELSE -10 * QuantizeHalfEven(-v, 1000)

\* mutant: the alert is raised at the threshold itself
portfolio_drawdown_Inclusive(file, threshold) ==
    IF file.kind = "absent"
    THEN [alert |-> FALSE, error |-> "No positions file", dailyPnlPct |-> 0]
    ELSE LET daily_pnl_pct == Get(Get(file.data, "summary", EmptyDict), "dailyPnlPct", 0)
         IN [alert |-> daily_pnl_pct <= -threshold,
             dailyPnlPct |-> QuantizeCents(daily_pnl_pct)]

\* main of portfolio_drawdown.py (drawdownPct, a placeholder, left out)
portfolio_drawdown(file, threshold) ==
    IF file.kind = "absent"
    THEN [alert |-> FALSE, error |-> "No positions file", dailyPnlPct |-> 0]
    ELSE LET daily_pnl_pct == Get(Get(file.data, "summary", EmptyDict), "dailyPnlPct", 0)
         IN [alert |-> daily_pnl_pct < -threshold,
             dailyPnlPct |-> QuantizeCents(daily_pnl_pct)]

\* the day's move of the portfolio, in thousandths of a percent
DailyMoves == {-2000, -1504, -1500, -1001, -1000, -999, 0, 1200}

\* risk-rules.yaml: absent, or setting the daily-move threshold to 1.5
DrawdownRulesFiles ==
    {[kind |-> "absent"],
     [kind |-> "yaml", pairs |-> JArr(<<>>), portfolio_daily_down_pct |-> 1500]}

InitDrawdown ==
    /\ stateFile = [kind |-> "absent"]
    /\ riskRules \in DrawdownRulesFiles
    /\ inputs = NoRun
    /\ locals = NoRun
    /\ report = NoRun
    /\ snapshot = <<0, 0, 0, 0, 0>>
    /\ phase = 0
    /\ phaseConfig = [kind |-> "absent"]
    /\ history = NoHistory
    /\ brokerage = NoAccount

\* a run on AAA after any day's move: the drawdown evaluator reads the file the
\* position source has just written
RunOnDrawdown ==
    \E daily \in DailyMoves, row \in RowsFor("AAA") :
      LET payload == [positions |-> <<Position("AAA")>>,
                      summary |-> [totalValue |-> 100000000, dailyPnlPct |-> daily]]
      IN Main(payload, QuietRisk[1],
              portfolio_drawdown(OnFile(payload), portfolio_daily_down_pct(riskRules)),
              QuietRisk[3], [phases |-> <<row>>], GetNews(<<>>))

\* a run whose position source fails before any positions file exists
RunWithoutPositionsFile ==
    Main(PositionsFailed, [alerts |-> <<>>, error |-> "No positions"],
         portfolio_drawdown(NoPositionsFile, portfolio_daily_down_pct(riskRules)),
         [error |-> "No positions file"], Failed, Failed)

NextDrawdown == RunOnDrawdown \/ RunWithoutPositionsFile

SpecDrawdown == InitDrawdown /\ [][NextDrawdown]_vars

\* dailyPnlPct of the summary the drawdown evaluator read
DailyMoveRead == Get(Get(inputs.positions, "summary", EmptyDict), "dailyPnlPct", 0)

\* C15: the drawdown evaluator raises its alert exactly when dailyPnlPct is
\* strictly below minus the configured threshold, and the report's hard-alert
\* list holds the portfolio daily-move line exactly when the alert is raised.
C15_DrawdownAlertIff ==
    report.ran =>
        /\ inputs.drawdown.alert <=>
              (/\ "error" \notin DOMAIN inputs.positions
               /\ DailyMoveRead < -portfolio_daily_down_pct(riskRules))
        /\ "portfolio_daily_move" \in Kinds(report.immediateActions)
              <=> inputs.drawdown.alert

\* C15 witness: a move of exactly -1.00 under the default threshold 1: no
\* alert and no daily-move line.
C15_Witness ==
    /\ report.ran
    /\ riskRules.kind = "absent"
    /\ "error" \notin DOMAIN inputs.positions
    /\ DailyMoveRead = -DefaultDailyDownPct
    /\ ~inputs.drawdown.alert
    /\ "portfolio_daily_move" \notin Kinds(report.immediateActions)

-----------------------------------------------------------------------------
(* skills/risk-calculator/scripts/exposure_summary.py.  Amounts are integers *)
(* counting thousandths; percentages inside the evaluator count tenths.      *)

DefaultConcentrationPct == 200

\* load_concentration_threshold: soft_flags.concentration_warn_pct, in tenths
load_concentration_threshold(rules) ==
    IF rules.kind = "yaml" THEN Get(rules, "concentration_warn_pct", DefaultConcentrationPct)
    ELSE DefaultConcentrationPct

\* lines 47-52: the explicit marketValue, or quantity * currentPrice
MarketValue(p) ==
    IF "marketValue" \in DOMAIN p THEN p.marketValue
    ELSE Get(p, "quantity", 0) * Get(p, "currentPrice", 0)

\* (mv / total * 100).quantize(Decimal("0.1")), in tenths; mv >= 0, total > 0
WeightPct(p, total) == QuantizeHalfEven(MarketValue(p) * 10, total)

\* lines 53-55: the flag one position adds
ConcentrationFlags(p, total, threshold) ==
    IF WeightPct(p, total) > threshold
    THEN << [ticker |-> p.ticker, weightPct |-> WeightPct(p, total) * 100,
             reason |-> "concentration"] >>
    ELSE <<>>

exposure_summary(file, threshold) ==
    IF file.kind = "absent" THEN [positions |-> 0, totalValue |-> 0, reEvalFlags |-> <<>>]
    ELSE LET positions == Get(file.data, "positions", <<>>)
             total == Get(Get(file.data, "summary", EmptyDict), "totalValue", 0)
         IN [positions |-> Len(positions),
             totalValue |-> total,
             reEvalFlags |-> IF total > 0
                             THEN FlatMap(positions,
                                          LAMBDA p : ConcentrationFlags(p, total, threshold))
                             ELSE <<>>]

\* holdings of a portfolio worth 100: market values 25, 20.06, 20.04, 20 and
\* 19.96 given explicitly, 25 and 10 given as quantity and price
Weighted(t) ==
    {[ticker |-> t, marketValue |-> mv] : mv \in {25000, 20060, 20040, 20000, 19960}}
    \cup {[ticker |-> t, currentPrice |-> c, quantity |-> 5] : c \in {5000, 2000}}

ExposureBooks ==
    {<<a>> : a \in Weighted("AAA")}
    \cup {<<b, a>> : b \in Weighted("BBB"), a \in Weighted("AAA")}

PortfolioOf100(book) ==
    [positions |-> book, summary |-> [totalValue |-> 100000, dailyPnlPct |-> 0]]

\* config/risk-rules.yaml: absent, or setting the concentration threshold to 25
ExposureRulesFiles ==
    {[kind |-> "absent"],
     [kind |-> "yaml", pairs |-> JArr(<<>>), concentration_warn_pct |-> 250]}

InitExposure ==
    /\ stateFile = [kind |-> "absent"]
    /\ riskRules \in ExposureRulesFiles
    /\ inputs = NoRun
    /\ locals = NoRun
    /\ report = NoRun
    /\ snapshot = <<0, 0, 0, 0, 0>>
    /\ phase = 0
    /\ phaseConfig = [kind |-> "absent"]
    /\ history = NoHistory
    /\ brokerage = NoAccount

\* a quiet run whose exposure evaluator reads the file the position source
\* has just written
RunOnExposure ==
    \E book \in ExposureBooks :
        Main(PortfolioOf100(book), QuietRisk[1], QuietRisk[2],
             exposure_summary(OnFile(PortfolioOf100(book)),
                              load_concentration_threshold(riskRules)),
             Steady(TickerList(book)), GetNews(<<>>))

NextExposure == RunOnExposure

SpecExposure == InitExposure /\ [][NextExposure]_vars

\* the flags the exposure evaluator printed for holding p
FlagsFor(p) == SelectSeq(inputs.exposure.reEvalFlags, LAMBDA f : f.ticker = p.ticker)

\* C16: weightPct is marketValue / totalValue * 100, marketValue being the
\* explicit field or quantity * currentPrice; a position is flagged exactly
\* when that weight is strictly greater than the configured threshold, and
\* then once, with its weight (25 of 100: weightPct 25.0).
C16_ConcentrationFlagIff ==
    report.ran =>
        LET total == inputs.positions.summary.totalValue
            threshold == load_concentration_threshold(riskRules)
        IN \A i \in 1..Len(inputs.positions.positions) :
              LET p == inputs.positions.positions[i]
                  flags == FlagsFor(p)
              IN IF MarketValue(p) * 1000 > threshold * total
                 THEN /\ Len(flags) = 1
                      /\ flags[1].weightPct = QuantizeHalfEven(MarketValue(p) * 10, total) * 100
                 ELSE flags = <<>>

\* a position worth 25 of 100 under the default threshold: one flag, weightPct
\* 25.0, rendered as a concentration watch flag
C16_ExampleReached ==
    /\ report.ran
    /\ riskRules.kind = "absent"
    /\ inputs.exposure.reEvalFlags =
          << [ticker |-> "AAA", weightPct |-> 25000, reason |-> "concentration"] >>
    /\ report.watchlistFlags =
          << <<"concentration", "AAA", fmt_pct(25000), "concentration">> >>

-----------------------------------------------------------------------------
(* skills/phase-analyzer/scripts/phase_core.py: the moving averages and      *)
(* analyze_closes.  Prices and averages are integers counting                *)
(* ten-thousandths, so round(x, 4) is rounding to an integer; an average     *)
(* under way is the exact fraction <<numerator, denominator>>.               *)

\* the fraction num/den with the factor f cancelled when both hold it
Cancel(num, den, f) ==
    IF num % f = 0 /\ den % f = 0 THEN <<num \div f, den \div f>> ELSE <<num, den>>

\* round(num / den): to the nearest integer, ties to the even one; den > 0
RoundHalfEven(num, den) ==
    LET floor == num \div den
        twice == 2 * (num % den)
    IN IF twice < den THEN floor
       ELSE IF twice > den THEN floor + 1
       ELSE IF floor % 2 = 0 THEN floor ELSE floor + 1

\* round(price, 2), in ten-thousandths
Round2(v) == RoundHalfEven(v, 100) * 100

SumSeq(s) ==
    LET acc[i \in 0..Len(s)] == IF i = 0 THEN 0 ELSE acc[i - 1] + s[i]
    IN acc[Len(s)]

\* sum(w * p for w, p in zip(range(1, period + 1), window))
WeightedSum(s) ==
    LET acc[i \in 0..Len(s)] == IF i = 0 THEN 0 ELSE acc[i - 1] + i * s[i]
    IN acc[Len(s)]

\* int(period ** 0.5)
Isqrt(n) == CHOOSE k \in 0..n : k * k <= n /\ n < (k + 1) * (k + 1)

Largest(a, b) == IF a >= b THEN a ELSE b

\* line 32: ((p - ema_val) * k) + ema_val with k = 2 / (period + 1)
ema_step(ema_val, p, period) ==
    Cancel(2 * (p * ema_val[2] - ema_val[1]) + (period + 1) * ema_val[1],
           (period + 1) * ema_val[2], period + 1)

ema(prices, period) ==
    IF prices = <<>> THEN 0
    ELSE IF Len(prices) < period THEN prices[Len(prices)]
    ELSE LET ema_val[i \in period..Len(prices)] ==
                 IF i = period THEN Cancel(SumSeq(SubSeq(prices, 1, period)), period, period)
                 ELSE CHOOSE next \in {ema_step(previous, prices[i], period) :
                                          previous \in {ema_val[i - 1]}} : TRUE
         IN RoundHalfEven(ema_val[Len(prices)][1], ema_val[Len(prices)][2])

sma(prices, period) ==
    IF prices = <<>> THEN 0
    ELSE IF Len(prices) < period THEN prices[Len(prices)]
    ELSE RoundHalfEven(SumSeq(LastN(prices, period)), period)

wma(prices, period) ==
    IF prices = <<>> THEN 0
    ELSE IF Len(prices) < period THEN prices[Len(prices)]
    ELSE RoundHalfEven(WeightedSum(LastN(prices, period)), (period * (period + 1)) \div 2)

hma(prices, period) ==
    LET half == Largest(1, period \div 2)
        sqrt_period == Largest(1, Isqrt(period))
    IN IF prices = <<>> THEN 0
       ELSE IF Len(prices) < period + sqrt_period THEN prices[Len(prices)]
       ELSE LET raw_vals == [k \in 1..(Len(prices) - period + 1) |->
                               LET window == SubSeq(prices, 1, period - 1 + k)
                               IN 2 * wma(window, half) - wma(window, period)]
            IN wma(raw_vals, sqrt_period)

\* load_config: the yaml mapping, {} when the file is absent
load_config(file) == IF file.kind = "yaml" THEN file.cfg ELSE EmptyDict

\* lines 102-107
hma_cross(price, hma_val, hma_prev) ==
    IF price < hma_val /\ price > hma_prev THEN "bearish"
    ELSE IF price > hma_val /\ price < hma_prev THEN "bullish"
    ELSE "neutral"

\* lines 109-114
hma_trend(hma_val, hma_prev) ==
    IF hma_val < hma_prev THEN "falling"
    ELSE IF hma_val > hma_prev THEN "rising"
    ELSE "flat"

\* mutant: only an empty history counts as insufficient
insufficient_data_OnlyEmpty(closes, sma_p) == closes = <<>>

\* line 92: not closes or len(closes) < sma_p
insufficient_data(closes, sma_p) == closes = <<>> \/ Len(closes) < sma_p

analyze_closes(ticker, closes, cfg) ==
    LET ema_p == Get(cfg, "ema_period", 10)
        sma_p == Get(cfg, "sma_period", 30)
        hma_p == IF Get(cfg, "hma_period", 0) # 0 THEN cfg.hma_period
                 ELSE Largest(ema_p, sma_p)
    IN IF insufficient_data(closes, sma_p)
       THEN [ticker |-> ticker, error |-> "Insufficient data"]
       ELSE LET price == closes[Len(closes)]
                ema10_val == ema(closes, ema_p)
                sma30_val == sma(closes, sma_p)
                hma_val == hma(closes, hma_p)
                hma_prev == IF Len(closes) > 1
                            THEN hma(SubSeq(closes, 1, Len(closes) - 1), hma_p)
                            ELSE hma_val
            IN [phase |-> JInt(get_phase(price, ema10_val, sma30_val, hma_val, hma_prev)),
                ticker |-> ticker,
                price |-> Round2(price),
                ema10 |-> ema10_val,
                sma30 |-> sma30_val,
                hmaTrend |-> hma_trend(hma_val, hma_prev),
                hmaCross |-> hma_cross(price, hma_val, hma_prev),
                hma |-> hma_val,
                hmaPrev |-> hma_prev]

(* skills/phase-analyzer/scripts/get_phases.py *)

\* _extract_closes: the ticker's column of the batched download, [] without one
extract_closes(hist, ticker) == IF ticker \in DOMAIN hist THEN hist[ticker] ELSE <<>>

\* main, lines 58-71: one row per requested ticker, in the order requested
get_phases(tickers, hist, cfgFile) ==
    [phases |-> [i \in 1..Len(tickers) |->
                    analyze_closes(Upper(tickers[i]),
                                   extract_closes(hist, Upper(tickers[i])),
                                   load_config(cfgFile))]]

(* Specification of the phase source feeding the briefing. *)

Dollars(n) == n * 10000

BaseLen == 33
ShortLen == 29

\* n closes at 10
Flat(n) == [i \in 1..n |-> Dollars(10)]

\* BaseLen closes at 10, then the three closes of tail
Closing(tail) == Flat(BaseLen) \o [i \in 1..3 |-> Dollars(tail[i])]

\* the last three closes of AAA: flat, dips, rebounds, a rise and a fall
Tails ==
    {<<10, 10, 10>>, <<10, 9, 9>>, <<9, 9, 10>>, <<9, 10, 9>>, <<9, 10, 10>>,
     <<9, 10, 11>>, <<11, 10, 9>>}
HistoriesA == {Flat(ShortLen)} \cup {Closing(tail) : tail \in Tails}
HistoriesB == {Flat(ShortLen), Closing(<<10, 10, 10>>), Closing(<<9, 10, 10>>)}

\* what the download returns: a column for AAA, and one for BBB unless the
\* provider does not know the ticker
Downloads ==
    {[t \in {"AAA"} |-> a] : a \in HistoriesA}
    \cup {[t \in Tickers |-> IF t = "AAA" THEN a ELSE b] : a \in HistoriesA, b \in HistoriesB}

\* config/phase-config.yaml: absent (periods 10, 30, 30), or setting short periods
PhaseConfigFiles ==
    {[kind |-> "absent"],
     [kind |-> "yaml", cfg |-> [ema_period |-> 2, sma_period |-> 3]]}

\* briefing_state.json of an earlier run that saw both tickers in phase 3
SawBothInPhase3 ==
    [kind |-> "json",
     doc |-> JObj([updatedAt |-> JStr("generated_at"),
                   phaseByTicker |-> JObj([t \in Tickers |-> JInt(3)]),
                   newsHashes |-> JArr(<<>>)])]

InitPhases ==
    /\ stateFile \in {[kind |-> "absent"], SawBothInPhase3}
    /\ riskRules = [kind |-> "absent"]
    /\ inputs = NoRun
    /\ locals = NoRun
    /\ report = NoRun
    /\ snapshot = <<0, 0, 0, 0, 0>>
    /\ phase = 0
    /\ phaseConfig \in PhaseConfigFiles
    /\ history \in Downloads
    /\ brokerage = NoAccount

\* a run on a quiet day for news and risk whose phase source analyses the
\* closes downloaded for the tickers held
RunOnHistory ==
    \E positions_data \in {HoldA, HoldBA} :
        Main(positions_data, QuietRisk[1], QuietRisk[2], QuietRisk[3],
             get_phases(TickerList(positions_data.positions), history, phaseConfig),
             GetNews(<<>>))

NextPhases == RunOnHistory

SpecPhases == InitPhases /\ [][NextPhases]_vars

\* the rows the phase source printed in the last run
PrintedRows == inputs.phases.phases

\* C17: hullCross is bullish exactly when the previous close is at or below
\* hullPrev and the current close is above the current Hull value, bearish
\* exactly when the previous close is at or above hullPrev and the current
\* close is below the current Hull value, and neutral otherwise.
C17_HullCross ==
    report.ran =>
        \A i \in 1..Len(PrintedRows) :
            LET row == PrintedRows[i]
                closes == extract_closes(history, row.ticker)
                price == closes[Len(closes)]
                previous == closes[Len(closes) - 1]
            IN "error" \notin DOMAIN row =>
                  row.hmaCross =
                     (IF previous <= row.hmaPrev /\ price > row.hma THEN "bullish"
                      ELSE IF previous >= row.hmaPrev /\ price < row.hma THEN "bearish"
                      ELSE "neutral")

\* a run in which the phase source printed a bearish cross for AAA and the
\* briefing showed it as a watch flag
C17_CrossReported ==
    /\ report.ran
    /\ \E i \in 1..Len(PrintedRows) :
          /\ PrintedRows[i].ticker = "AAA"
          /\ "error" \notin DOMAIN PrintedRows[i]
          /\ PrintedRows[i].hmaCross = "bearish"
    /\ \E j \in 1..Len(report.watchlistFlags) :
          report.watchlistFlags[j] = <<"bearish_cross", "AAA">>

\* the ticker a report line is about
LineTicker(line) ==
    IF line[1] \in {"transition_flag", "phase_alert"} THEN line[2][2] ELSE line[2]

\* the tickers the actionable thought names
ThoughtTickers ==
    IF report.actionableThought[1] \in {"weakening", "phase3_wait"}
    THEN Range(report.actionableThought[2]) ELSE {}

\* phaseByTicker of the state the run wrote
PersistedPhaseMap == PreviousPhaseMap(load_state(stateFile))

\* the long SMA period in force
LongPeriod == Get(load_config(phaseConfig), "sma_period", 30)

\* C18: a ticker with fewer closes than the long SMA period gets the record
\* {error, ticker} while the other tickers of the batch are classified; the
\* error record gives the briefing no watch flag, no transition, no part in
\* the actionable thought and no entry in the persisted phaseByTicker, and it
\* stays in the report's inputs.phases with its ticker.
C18_ShortHistoryIsErrorRow ==
    report.ran =>
        /\ Len(PrintedRows) = Len(locals.tickers)
        /\ \A i \in 1..Len(locals.tickers) :
              LET t == locals.tickers[i]
                  row == PrintedRows[i]
              IN IF Len(extract_closes(history, t)) < LongPeriod
                 THEN /\ row = [ticker |-> t, error |-> "Insufficient data"]
                      /\ \A k \in 1..Len(report.watchlistFlags) :
                            LineTicker(report.watchlistFlags[k]) # t
                      /\ \A k \in 1..Len(report.immediateActions) :
                            LineTicker(report.immediateActions[k]) # t
                      /\ \A k \in 1..Len(report.phaseTransitions) :
                            report.phaseTransitions[k][2] # t
                      /\ t \notin ThoughtTickers
                      /\ t \notin DOMAIN PersistedPhaseMap
                 ELSE /\ "error" \notin DOMAIN row
                      /\ row.ticker = t
                      /\ row.phase.val \in 1..5
                      /\ t \in DOMAIN PersistedPhaseMap

\* C18 witness: the earlier run saw AAA and BBB in phase 3; now AAA has too
\* few closes and BBB is classified in another phase: BBB's transition is the
\* only one reported, and the state written holds BBB alone.
C18_Witness ==
    /\ report.ran
    /\ locals.tickers = <<"AAA", "BBB">>
    /\ locals.state_text = SawBothInPhase3
    /\ PrintedRows[1] = [ticker |-> "AAA", error |-> "Insufficient data"]
    /\ "error" \notin DOMAIN PrintedRows[2]
    /\ Len(report.phaseTransitions) = 1
    /\ report.phaseTransitions[1][2] = "BBB"
    /\ DOMAIN PersistedPhaseMap = {"BBB"}

-----------------------------------------------------------------------------
(* The briefing on a day the position source yields no positions.  The risk  *)
(* evaluators read workspace/portfolio/positions.json, which get_positions   *)
(* writes only when it succeeds (line 339).                                  *)

\* load_positions of check_stops.py, standard input being a terminal
load_positions(file) ==
    IF file.kind = "absent" THEN <<>> ELSE Get(file.data, "positions", <<>>)

\* check_stops as run_json starts it: the child inherits standard input, and
\* json.load raises on one that is neither a terminal nor JSON (line 30)
check_stops_process(stdin, file, threshold_pct) ==
    IF stdin = "tty"
    THEN Exited(0, Printed(check_stops(load_positions(file), threshold_pct)), "")
    ELSE Exited(1, NoOutput, "traceback")

\* portfolio_drawdown as run_json starts it: get_positions writes dailyPnlPct
\* as null (line 333), on which Decimal(str(None)) raises (line 35)
portfolio_drawdown_process(file, threshold) ==
    IF file.kind = "absent"
    THEN Exited(0, Printed(portfolio_drawdown(file, threshold)), "")
    ELSE Exited(1, NoOutput, "traceback")

\* what get_positions prints and writes for an account without holdings; the
\* null dailyPnlPct is left out, the aggregator reading it as 0 (as_decimal)
EmptyAccount(total) == [positions |-> <<>>, summary |-> [totalValue |-> total, cash |-> total]]

\* positions.json as an earlier session left it
CachedBooks ==
    {<<Holding("AAA", q)>> : q \in Quotes} \cup {<<w>> : w \in Weighted("AAA")}
    \cup {<<Holding("BBB", q), w>> : q \in {<<95000, 92000>>, <<90000, 92000>>},
                                     w \in Weighted("AAA")}
CachedFiles ==
    {NoPositionsFile}
    \cup {OnFile([positions |-> book, summary |-> [totalValue |-> 100000, cash |-> 0]]) :
            book \in CachedBooks}

\* the position source prints an empty position list: an account without
\* holdings, one of its error exits, or a crash
EmptyHanded ==
    {Exited(0, Printed(EmptyAccount(total)), "") : total \in {0, 100000}}
    \cup FailingProcs("positions", <<>>)

RunOnEmptyBook ==
    \E source \in EmptyHanded, cache \in CachedFiles, stdin \in {"tty", "empty"} :
      LET file == IF source.kind = "exited" /\ source.rc = 0 /\ source.stdout.kind = "json"
                  THEN OnFile(source.stdout.payload) ELSE cache
      IN Main(run_json(source),
              run_json(check_stops_process(stdin, file, stop_approaching_pct(riskRules))),
              run_json(portfolio_drawdown_process(file, portfolio_daily_down_pct(riskRules))),
              exposure_summary(file, load_concentration_threshold(riskRules)),
              Failed, Failed)

NextEmptyBook == RunOnEmptyBook

SpecEmptyBook == InitFail /\ [][NextEmptyBook]_vars

\* C19: whenever the position source yields an empty position list, the
\* snapshot line shows 0 positions and 0 hard alerts and the rendered
\* actionable thought is "No high-confidence action today.", whatever the
\* stop, drawdown and exposure evaluators return in that run.
C19_EmptyBookIsQuiet ==
    (report.ran /\ Get(inputs.positions, "positions", <<>>) = <<>>) =>
        /\ report.summaryLine[4] = 0
        /\ report.summaryLine[5] = 0
        /\ report.renderedThought = <<"no_action_today">>

\* a run on an account without holdings: 0 positions, 0 hard alerts, no action
C19_ExampleReached ==
    /\ report.ran
    /\ "error" \notin DOMAIN inputs.positions
    /\ inputs.positions.positions = <<>>
    /\ report.summaryLine[4] = 0
    /\ report.summaryLine[5] = 0
    /\ report.renderedThought = <<"no_action_today">>

-----------------------------------------------------------------------------
(* The briefing on a book that holds the same ticker in several lots. *)

\* a lot of AAA: its quote and its market value
Lot(quote, mv) == Holding("AAA", quote) @@ [marketValue |-> mv]
Lots ==
    {Lot(<<95000, 92000>>, 25000), Lot(<<95000, 92000>>, 10000),
     Lot(<<90000, 92000>>, 25000), Lot(<<90000, 92000>>, 30000),
     Lot(<<95000, 0>>, 30000)}

MaxLots == 3
LotBooks == UNION {[1..n -> Lots] : n \in 1..MaxLots}

\* a run on a quiet day for news and phases whose evaluators read the file
\* the position source has just written
RunOnLots ==
    \E book \in LotBooks :
        Main(PortfolioOf100(book),
             check_stops(book, stop_approaching_pct(riskRules)),
             QuietRisk[2],
             exposure_summary(OnFile(PortfolioOf100(book)),
                              load_concentration_threshold(riskRules)),
             Steady(TickerList(book)), GetNews(<<>>))

NextLots == RunOnLots

SpecLots == InitFail /\ [][NextLots]_vars

\* the lines of the run before de-duplication: lines 245-262 and 296-299
\* (the phase rows of these runs add no line)
RawHardAlerts ==
    DrawdownLines(inputs.drawdown, inputs.positions.summary) \o StopLines(inputs.stops)
    \o NewsAlertLines(inputs.news)
RawWatchFlags == ExposureLines(inputs.exposure)

NoRepeat(lines) == \A i, j \in 1..Len(lines) : lines[i] = lines[j] => i = j

\* the first occurrence of every distinct line, in the original order
FirstOccurrences(lines) ==
    LET kept == {i \in 1..Len(lines) : \A j \in 1..(i - 1) : lines[j] # lines[i]}
        indices == SelectSeq([i \in 1..Len(lines) |-> i], LAMBDA i : i \in kept)
    IN [k \in 1..Len(indices) |-> lines[indices[k]]]

\* C20: in every report the hard-alert list and the watch-flag list hold no
\* line twice; each is the list of first occurrences of the distinct lines
\* of the run in their original order, and de-duplicating it again changes
\* nothing.
C20_NoDuplicateLines ==
    report.ran =>
        /\ NoRepeat(report.immediateActions)
        /\ NoRepeat(report.watchlistFlags)
        /\ report.immediateActions = FirstOccurrences(RawHardAlerts)
        /\ report.watchlistFlags = FirstOccurrences(RawWatchFlags)
        /\ unique_lines(report.immediateActions) = report.immediateActions
        /\ unique_lines(report.watchlistFlags) = report.watchlistFlags

\* C20 witness: three lots whose first and third give the same stop alert and
\* the same concentration flag, the second another one: two lines each, in
\* the order of the first occurrences
C20_Witness ==
    /\ report.ran
    /\ Len(RawHardAlerts) = 3
    /\ RawHardAlerts[1] = RawHardAlerts[3]
    /\ RawHardAlerts[1] # RawHardAlerts[2]
    /\ report.immediateActions = <<RawHardAlerts[1], RawHardAlerts[2]>>
    /\ Len(RawWatchFlags) = 3
    /\ RawWatchFlags[1] = RawWatchFlags[3]
    /\ report.watchlistFlags = <<RawWatchFlags[1], RawWatchFlags[2]>>

-----------------------------------------------------------------------------
(* The position producers: get_positions.py (Schwab account) and            *)
(* load_csv.py (CSV export).  Share quantities as the broker states them    *)
(* are integers counting tenths of a share, money integers counting cents;  *)
(* the prices of the emitted records and the account totals count           *)
(* thousandths as everywhere else.                                          *)

LONG_CLOSE_INSTRUCTIONS == {"SELL", "SELL_TO_CLOSE"}
SHORT_CLOSE_INSTRUCTIONS == {"BUY", "BUY_TO_COVER", "BUY_TO_CLOSE"}

\* Decimal.quantize(Decimal("0.01")) of num/den for either sign of num
SignedQuantize(num, den) ==
    IF num >= 0 THEN QuantizeHalfEven(num, den) ELSE -QuantizeHalfEven(-num, den)

\* resolve_local_stop: the entry of stops.json for the symbol, a number or a
\* dict keyed by direction (then "stop"); <<>> stands for None
resolve_local_stop(stops, symbol, direction) ==
    IF symbol \notin DOMAIN stops THEN <<>>
    ELSE LET value == stops[symbol]
         IN IF value.kind = "dict"
            THEN IF direction \in DOMAIN value.entries THEN <<value.entries[direction]>>
                 ELSE IF "stop" \in DOMAIN value.entries THEN <<value.entries["stop"]>>
                 ELSE <<>>
            ELSE <<value.number>>

\* lines 207-230: the price of the first protective order that closes a
\* position of this direction; <<>> stands for None
stop_from_orders(candidates, direction, avg_price, short_limit_as_stop_fallback) ==
    LET closing(c) ==
            IF direction = "long"
            THEN c.kind = "stop"
                 /\ (c.instruction = "" \/ c.instruction \in LONG_CLOSE_INSTRUCTIONS)
            ELSE \/ c.kind = "stop"
                    /\ (c.instruction = "" \/ c.instruction \in SHORT_CLOSE_INSTRUCTIONS)
                 \/ c.kind = "limit"
                    /\ short_limit_as_stop_fallback
                    /\ (c.instruction = "" \/ c.instruction \in SHORT_CLOSE_INSTRUCTIONS)
                    /\ c.price > avg_price * 10
        found == {i \in 1..Len(candidates) : closing(candidates[i])}
    IN IF found = {} THEN <<>>
       ELSE <<candidates[CHOOSE i \in found : \A j \in found : i <= j].price>>

\* lines 178-189: the direction and the quantity taken from the two legs; the
\* long leg falls back on "quantity" when it is absent or zero
legs(pos) ==
    LET long_qty == IF Get(pos, "longQuantity", 0) # 0 THEN pos.longQuantity
                    ELSE Get(pos, "quantity", 0)
        short_qty == Get(pos, "shortQuantity", 0)
    IN IF long_qty > 0 THEN <<"long", long_qty>>
       ELSE IF short_qty > 0 THEN <<"short", short_qty>>
       ELSE <<>>

\* parse_position: <<record>>, or <<>> for None
parse_position(pos, protective_orders, local_stops, short_limit_as_stop_fallback) ==
    LET symbol == Get(Get(pos, "instrument", EmptyDict), "symbol", "")
    IN IF symbol = "" \/ legs(pos) = <<>> THEN <<>>
       ELSE LET direction == legs(pos)[1]
                qty == legs(pos)[2]
                raw_avg == Get(pos, "averagePrice", 0)
                avg_price == IF direction = "short" /\ raw_avg < 0 THEN -raw_avg ELSE raw_avg
                mkt_val == Get(pos, "marketValue", 0)
                current_price ==
                    IF direction = "short"
                    THEN QuantizeHalfEven(IF mkt_val < 0 THEN -mkt_val ELSE mkt_val, 10 * qty)
                    ELSE SignedQuantize(mkt_val, 10 * qty)
                pnl == IF direction = "short"
                       THEN SignedQuantize((avg_price - current_price) * qty, 1000)
                       ELSE SignedQuantize((current_price - avg_price) * qty, 1000)
                cost == QuantizeHalfEven(avg_price * qty, 1000)
                pnl_pct == IF cost # 0 THEN SignedQuantize(pnl * 100, cost) ELSE 0
                ordered == stop_from_orders(Get(protective_orders, symbol, <<>>), direction,
                                            avg_price, short_limit_as_stop_fallback)
                stop == IF ordered # <<>> THEN ordered
                        ELSE resolve_local_stop(local_stops, symbol, direction)
                parsed == [ticker |-> symbol, currentPrice |-> current_price * 10,
                           quantity |-> qty \div 10, direction |-> direction,
                           pnl |-> pnl, avgCost |-> avg_price * 10,
                           pnlPct |-> pnl_pct]
            IN IF stop = <<>> THEN <<parsed>> ELSE <<parsed @@ [stop |-> stop[1]]>>

\* get_positions.py main, lines 299-341, on an account response: what it
\* writes to positions.json and prints (the null dailyPnlPct is left out)
get_positions(account) ==
    LET parsed_at(i) == parse_position(account.positions[i], account.orders,
                                       account.stops, TRUE)
        kept == SelectSeq([i \in 1..Len(account.positions) |-> parsed_at(i)],
                          LAMBDA p : p # <<>>)
    IN [positions |-> [i \in 1..Len(kept) |-> kept[i][1]],
        summary |-> [totalValue |-> account.total, cash |-> account.cash]]

\* load_csv.py: the rows the loop of line 76 passes over
_is_total_row(symbol) == symbol \in {"Account Total", "Total"}
_is_cash_row(symbol) == symbol \in {"Cash & Cash Investments"}
IsOptionRow(symbol) == symbol \in {"AAA 01/16/2026 100.00 C"}

\* lines 98-117: the record one equity row adds
csv_position(row) ==
    LET qty_raw == Get(row, "Qty", 0)
        abs_qty == IF qty_raw < 0 THEN -qty_raw ELSE qty_raw
    IN IF qty_raw = 0 THEN <<>>
       ELSE << [ticker |-> Upper(row.Symbol), currentPrice |-> Get(row, "Price", 0),
                quantity |-> abs_qty \div 10,
                direction |-> IF qty_raw > 0 THEN "long" ELSE "short"] >>

\* lines 120-129: a stop of stops.json replaces the null one
merge_stop(p, stops_map) ==
    IF p.ticker \in DOMAIN stops_map THEN p @@ [stop |-> stops_map[p.ticker]] ELSE p

load_csv(rows, stops_map) ==
    LET equity(row) == /\ row.Symbol # ""
                       /\ ~_is_total_row(row.Symbol)
                       /\ ~_is_cash_row(row.Symbol)
                       /\ ~IsOptionRow(row.Symbol)
        added == SelectSeq([i \in 1..Len(rows) |->
                              IF equity(rows[i]) THEN csv_position(rows[i]) ELSE <<>>],
                           LAMBDA p : p # <<>>)
        totals == SelectSeq(rows, LAMBDA row : _is_total_row(row.Symbol))
        cashes == SelectSeq(rows, LAMBDA row : _is_cash_row(row.Symbol))
    IN [positions |-> [i \in 1..Len(added) |-> merge_stop(added[i][1], stops_map)],
        summary |-> [totalValue |-> IF totals = <<>> THEN 0
                                    ELSE Get(totals[Len(totals)], "MktVal", 0),
                     dailyPnlPct |-> IF totals = <<>> THEN 0
                                     ELSE Get(totals[Len(totals)], "DayPct", 0),
                     cash |-> IF cashes = <<>> THEN 0
                              ELSE Get(cashes[Len(cashes)], "MktVal", 0)],
        _source |-> "csv"]

\* what the broker states of one holding
Raw(t, long, short, avg, mkt) == [marketValue |-> mkt, longQuantity |-> long, instrument |-> [symbol |-> t], shortQuantity |-> short, averagePrice |-> avg]

\* ten shares long, half a share, ten long against four short, ten short, a
\* closed holding, ten short with no market value stated, and the response
\* shape that states "quantity" alone
RawHoldings(t) ==
    {Raw(t, 100, 0, 9000, 95000), Raw(t, 5, 0, 9000, 4750),
     Raw(t, 100, 40, 9000, 57000), Raw(t, 0, 100, 10000, -95000),
     Raw(t, 0, 0, 0, 0), Raw(t, 0, 100, 10000, 0),
     [marketValue |-> 95000, quantity |-> 100, instrument |-> [symbol |-> t],
      averagePrice |-> 9000]}

Order(kind, price, instruction) == [kind |-> kind, price |-> price, instruction |-> instruction]

\* the protective orders fetch_protective_orders returns, by symbol
OrderBooks ==
    {EmptyDict,
     [AAA |-> <<Order("stop", 92000, "SELL")>>],
     [AAA |-> <<Order("stop", 98000, "BUY_TO_COVER")>>],
     [AAA |-> <<Order("limit", 101000, "BUY"), Order("stop", 92000, "")>>]}

\* stops.json
StopFiles ==
    {EmptyDict,
     [AAA |-> [kind |-> "number", number |-> 92000]],
     [AAA |-> [kind |-> "dict", entries |-> [short |-> 98000]]]}

SchwabAccounts ==
    {[kind |-> "schwab", positions |-> held, stops |-> stops, total |-> 1000000,
      cash |-> 50000, orders |-> orders] :
        held \in {<<a>> : a \in RawHoldings("AAA")}
                 \cup {<<b, a>> : a \in RawHoldings("AAA"),
                                  b \in {Raw("BBB", 100, 0, 9000, 95000),
                                         Raw("BBB", 0, 0, 0, 0)}},
        orders \in OrderBooks, stops \in StopFiles}

\* the rows of a CSV export below its header
CsvExports ==
    {[rows |-> << [Price |-> 95000, Symbol |-> "aaa", Qty |-> qty],
                  [Price |-> 2000, Symbol |-> "AAA 01/16/2026 100.00 C", Qty |-> 10],
                  [Symbol |-> "Cash & Cash Investments", MktVal |-> 50000],
                  [Symbol |-> "Account Total", MktVal |-> 1000000, DayPct |-> 0] >>,
      kind |-> "csv",
      stops |-> stops] :
        qty \in {100, 5, 15, -100, 0}, stops \in {EmptyDict, [AAA |-> 92000], [AAA |-> 98000]}}

InitAccount ==
    /\ stateFile = [kind |-> "absent"]
    /\ riskRules = [kind |-> "absent"]
    /\ inputs = NoRun
    /\ locals = NoRun
    /\ report = NoRun
    /\ snapshot = <<0, 0, 0, 0, 0>>
    /\ phase = 0
    /\ phaseConfig = [kind |-> "absent"]
    /\ history = NoHistory
    /\ brokerage \in SchwabAccounts \cup CsvExports

\* positions.json as the producer at hand writes it
ProducedBook == IF brokerage.kind = "schwab" THEN get_positions(brokerage) ELSE load_csv(brokerage.rows, brokerage.stops)

\* a morning brief on the account: get_positions prints what it wrote (or,
\* without credentials, the file load_csv wrote) and the evaluators read
\* the file
RunOnAccount ==
    LET file == OnFile(ProducedBook)
        drawdown == IF "dailyPnlPct" \in DOMAIN ProducedBook.summary
                    THEN Exited(0, Printed(portfolio_drawdown(file, portfolio_daily_down_pct(riskRules))), "")
                    ELSE portfolio_drawdown_process(file, portfolio_daily_down_pct(riskRules))
    IN Main(run_json(Exited(0, Printed(ProducedBook), "")),
            run_json(check_stops_process("tty", file, stop_approaching_pct(riskRules))),
            run_json(drawdown),
            exposure_summary(file, load_concentration_threshold(riskRules)),
            Steady(TickerList(ProducedBook.positions)), GetNews(<<>>))

NextAccount == RunOnAccount

SpecAccount == InitAccount /\ [][NextAccount]_vars

\* the records the producer emitted in the run just made
Emitted == Get(inputs.positions, "positions", <<>>)

\* the holdings of the broker under the ticker of an emitted record, as
\* <<long leg, short leg>> in tenths of a share
LegsOf(ticker) ==
    IF brokerage.kind = "schwab"
    THEN {<<IF Get(h, "longQuantity", 0) # 0 THEN h.longQuantity ELSE Get(h, "quantity", 0),
            Get(h, "shortQuantity", 0)>> :
            h \in {g \in Range(brokerage.positions) : g.instrument.symbol = ticker}}
    ELSE {<<IF r.Qty > 0 THEN r.Qty ELSE 0, IF r.Qty < 0 THEN -r.Qty ELSE 0>> :
            r \in {g \in Range(brokerage.rows) : "Qty" \in DOMAIN g /\ Upper(g.Symbol) = ticker}}

\* C21: every position record the producers emit has an integer quantity
\* strictly greater than zero that is the net of the long and the short leg
\* of the holding; a holding whose quantity is zero is never emitted.
C21_QuantityIsPositiveNet ==
    report.ran =>
        \A i \in 1..Len(Emitted) :
            /\ Emitted[i].quantity > 0
            /\ \E l \in LegsOf(Emitted[i].ticker) :
                  /\ l[1] # l[2]
                  /\ Emitted[i].quantity * 10 = IF l[1] > l[2] THEN l[1] - l[2] ELSE l[2] - l[1]

\* half a share held long is emitted with quantity 0
C21_FractionEmittedAsZero ==
    /\ report.ran
    /\ \E i \in 1..Len(Emitted) : Emitted[i].quantity = 0 /\ <<5, 0>> \in LegsOf(Emitted[i].ticker)

\* ten long against four short is emitted as ten long
C21_LegsNotNetted ==
    /\ report.ran
    /\ brokerage.kind = "schwab"
    /\ \E i \in 1..Len(Emitted) :
          /\ Emitted[i].quantity = 10
          /\ Emitted[i].direction = "long"
          /\ LegsOf(Emitted[i].ticker) = {<<100, 40>>}

\* the alerts check_stops printed in the run just made
StopReport == Get(inputs.stops, "alerts", <<>>)

\* (currentPrice - stop) / currentPrice * 100 to two decimals, in thousandths
SignedPctToStop(p) == 10 * SignedQuantize((p.currentPrice - p.stop) * 100, p.currentPrice)

\* check_stops reports the position as hit, with the long-side distance, and
\* under no other status
ReportedHit(p) ==
    /\ \E i \in 1..Len(StopReport) :
          /\ StopReport[i].ticker = p.ticker
          /\ StopReport[i].status = "hit"
          /\ StopReport[i].pctToStop = SignedPctToStop(p)
    /\ \A i \in 1..Len(StopReport) :
          StopReport[i].ticker = p.ticker => StopReport[i].status = "hit"

-----------------------------------------------------------------------------
(* Runs on a book of two holdings in which every kind of line can occur at  *)
(* once: the collaborators print their items in the order they found them.  *)

StopAlertOf(t, status) == [ticker |-> t, status |-> status, currentPrice |-> 95000, stop |-> IF status = "hit" THEN 96000 ELSE 92000, pctToStop |-> IF status = "hit" THEN -1050 ELSE 3160]

ConcentrationOf(t, weight) == [ticker |-> t, weightPct |-> weight, reason |-> "concentration"]

\* <<check_stops, portfolio_drawdown, exposure_summary>> outputs on the book
BookRisk ==
    {QuietRisk,
     <<[alerts |-> <<StopAlertOf("BBB", "approaching"), StopAlertOf("AAA", "hit")>>],
       [alert |-> TRUE, dailyPnlPct |-> -1500],
       [positions |-> 2, totalValue |-> 100000000,
        reEvalFlags |-> <<ConcentrationOf("BBB", 30000), ConcentrationOf("AAA", 25000)>>]>>,
     <<[alerts |-> <<StopAlertOf("BBB", "hit"), StopAlertOf("AAA", "hit"),
                     StopAlertOf("BBB", "hit")>>],
       [alert |-> FALSE, dailyPnlPct |-> -500],
       [positions |-> 2, totalValue |-> 100000000,
        reEvalFlags |-> <<ConcentrationOf("AAA", 25000), ConcentrationOf("AAA", 25000)>>]>>}

\* get_phases' rows for the two tickers, BBB printed first
BookRows ==
    {[phases |-> <<ClassifiedRow("BBB", b), ClassifiedRow("AAA", a)>>] : a, b \in RowShapes}
    \cup {[phases |-> <<ErrorRow("BBB"), ClassifiedRow("AAA", <<4, "falling", "neutral">>)>>]}

BookNews == {GetNews(<<>>), GetNews(<<hA1, hA2>>)}

RunOnBook ==
    \E risk \in BookRisk, phases_out \in BookRows, news_out \in BookNews :
        Main(HoldBA, risk[1], risk[2], risk[3], phases_out, news_out)

NextBook == RunOnBook

SpecBook == InitFail /\ [][NextBook]_vars

\* the place of a hard-alert line in the order of C22: its group, then its
\* ticker (stop and phase lines) or its text (news lines)
HardGroup(line) ==
    CASE line[1] = "portfolio_daily_move" -> 1
      [] line[1] = "stop" -> 2
      [] line[1] = "news_alert" -> 3
      [] line[1] = "phase_alert" -> 4

HardPlace(line) ==
    CASE line[1] = "portfolio_daily_move" -> 0
      [] line[1] = "stop" -> TickerIndex(line[2])
      [] line[1] = "news_alert" -> AlertKey(line[2])
      [] line[1] = "phase_alert" -> TickerIndex(line[2][2])

\* C22: the final hard-alert list holds the drawdown line first (if
\* raised), then the stop lines in ascending ticker order, then the news
\* alert lines in ascending lexical order, then the phase hard-transition
\* lines in ascending ticker order.
C22_HardAlertOrder ==
    report.ran =>
        \A i, j \in 1..Len(report.immediateActions) :
            i < j =>
                LET a == report.immediateActions[i]
                    b == report.immediateActions[j]
                IN \/ HardGroup(a) < HardGroup(b)
                   \/ HardGroup(a) = HardGroup(b) /\ HardGroup(a) # 1
                      /\ HardPlace(a) <= HardPlace(b)

\* C22 witness: check_stops printed BBB before AAA and the news source the
\* major item before the adversarial one; both tickers went from 3 to 4. The
\* list reads: drawdown, stop AAA, stop BBB, the adversarial item, the major
\* item, phase alert AAA, phase alert BBB.
C22_Witness ==
    /\ report.ran
    /\ Len(report.immediateActions) = 7
    /\ Len(inputs.stops.alerts) = 2
    /\ inputs.stops.alerts[1].ticker = "BBB"
    /\ Len(inputs.news.alerts) = 2
    /\ inputs.news.alerts[1][2] = "major"
    /\ [i \in 1..7 |-> report.immediateActions[i][1]]
          = <<"portfolio_daily_move", "stop", "stop", "news_alert", "news_alert",
              "phase_alert", "phase_alert">>
    /\ report.immediateActions[2][2] = "AAA"
    /\ report.immediateActions[3][2] = "BBB"
    /\ report.immediateActions[4][2][2] = "adversarial"
    /\ report.immediateActions[6][2][2] = "AAA"
    /\ report.immediateActions[7][2][2] = "BBB"

\* the rows of the run that carry a phase
ClassifiedRows == {r \in Range(inputs.phases.phases) : "error" \notin DOMAIN r}

\* one line for each thing C23 lists
WatchExpected ==
    {<<"phase4", r.ticker>> : r \in {c \in ClassifiedRows : c.phase = JInt(4)}}
    \cup {<<"phase5", r.ticker>> : r \in {c \in ClassifiedRows : c.phase = JInt(5)}}
    \cup {<<"phase3_hull_falling", r.ticker>> :
            r \in {c \in ClassifiedRows : c.phase = JInt(3) /\ c.hmaTrend = "falling"}}
    \cup {<<"bearish_cross", r.ticker>> : r \in {c \in ClassifiedRows : c.hmaCross = "bearish"}}
    \cup {ConcentrationLine(f) : f \in Range(Get(inputs.exposure, "reEvalFlags", <<>>))}
    \cup {<<"transition_flag", tl>> :
            tl \in {l \in Range(report.phaseTransitions) :
                      <<l[3], l[4]>> \notin locals.hard_phase_transition_pairs}}

\* the ticker a watch-flag line begins with
WatchTicker(line) == IF line[1] = "transition_flag" THEN line[2][2] ELSE line[2]

\* C23: the watch-flag list holds exactly one line for every classified
\* ticker in phase 4 or 5, every phase-3 ticker whose Hull trend is falling,
\* every ticker with a bearish Hull cross, every concentration flag and every
\* phase transition outside the hard set; the list is sorted (every line
\* begins with its ticker: at the least the tickers ascend) and holds no line
\* twice.
C23_WatchFlagsSortedUnique ==
    report.ran =>
        /\ Range(report.watchlistFlags) = WatchExpected
        /\ NoRepeat(report.watchlistFlags)
        /\ \A i, j \in 1..Len(report.watchlistFlags) :
              i < j => TickerIndex(WatchTicker(report.watchlistFlags[i]))
                          <= TickerIndex(WatchTicker(report.watchlistFlags[j]))

\* the content and the absence of repeats alone
C23_WatchFlagsContent ==
    report.ran =>
        /\ Range(report.watchlistFlags) = WatchExpected
        /\ NoRepeat(report.watchlistFlags)

\* BBB is in phase 4 and AAA weighs 25 percent: the line of BBB's phase
\* precedes the line of AAA's concentration
C23_ConcentrationAfterPhaseFlags ==
    /\ report.ran
    /\ report.watchlistFlags = << <<"phase4", "BBB">>,
                                  ConcentrationLine(ConcentrationOf("AAA", 25000)) >>

-----------------------------------------------------------------------------
(* Runs on long news payloads: up to MaxEvents articles on AAA, of every    *)
(* score and publication time in turn, the payload of a later run starting  *)
(* further along the stream.                                                *)

MaxEvents == 13
Shifts == {0, 3}

EventFeed(n, shift) ==
    [i \in 1..n |-> Headline("AAA", Text(i + shift), Text(1), (i + shift) % (MaxTime + 1),
                             i + shift, ScoreOrder[((i + shift) % Len(ScoreOrder)) + 1])]

RunOnEvents ==
    \E n \in 0..MaxEvents, shift \in Shifts :
        Main(HoldA, QuietRisk[1], QuietRisk[2], QuietRisk[3], Steady(<<"AAA">>),
             GetNews(EventFeed(n, shift)))

NextEvents == RunOnEvents

SpecEvents == InitFail /\ [][NextEvents]_vars

\* the headlines of the payload a line of the section can stand for
Listable(line) ==
    {h \in Range(HeadlinesOf(inputs.news)) :
        /\ EventLine(h) = line
        /\ IsScored(h)
        /\ locals.state_loaded => headline_hash(h) \notin PersistedHashes(locals.state_text)}

\* C24: the external-events section lists only headlines scored adversarial,
\* major or macro, latest publishedAt first, on at most 8 lines; in a run
\* that loaded a previous state it lists only headlines whose fingerprint the
\* persisted set does not hold.
C24_ExternalEvents ==
    report.ran =>
        /\ Len(report.externalEvents) <= EVENT_LIMIT
        /\ \A i \in 1..Len(report.externalEvents) : Listable(report.externalEvents[i]) # {}
        /\ \A i, j \in 1..Len(report.externalEvents) :
              i < j => \E a \in Listable(report.externalEvents[i]),
                          b \in Listable(report.externalEvents[j]) :
                            a.publishedAt >= b.publishedAt

\* C24 witness, baseline: 13 articles of which 10 are scored, 8 listed
C24_Witness ==
    /\ report.ran
    /\ ~locals.state_loaded
    /\ Len(HeadlinesOf(inputs.news)) = MaxEvents
    /\ Cardinality({i \in 1..MaxEvents : IsScored(inputs.news.headlines[i])}) > EVENT_LIMIT
    /\ Len(report.externalEvents) = EVENT_LIMIT
    /\ report.externalEvents[1][4] # report.externalEvents[EVENT_LIMIT][4]

-----------------------------------------------------------------------------
\* how often the run just made started a collaborator
Started(c) == Cardinality({i \in 1..Len(locals.invocations) : locals.invocations[i] = c})

\* C25: within one run each collaborator script is started at most once,
\* whatever its outcome (no retry after a failure or a timeout); the position
\* source is started before the phase and the news source; the phase and the
\* news source are not started at all when the positions yield no tickers.
C25_OneInvocationEach ==
    report.ran =>
        /\ \A c \in Collaborators : Started(c) <= 1
        /\ \A i \in 1..Len(locals.invocations) :
              locals.invocations[i] \in {"phases", "news"} =>
                  \E j \in 1..(i - 1) : locals.invocations[j] = "positions"
        /\ locals.tickers = <<>> => Started("phases") = 0 /\ Started("news") = 0

\* C25 witness: the phase and the news source both failed in a run on AAA;
\* each was started once, after the position source
C25_Witness ==
    /\ report.ran
    /\ locals.tickers = <<"AAA">>
    /\ "error" \in DOMAIN inputs.phases
    /\ "error" \in DOMAIN inputs.news
    /\ locals.invocations = <<"positions", "stops", "drawdown", "exposure", "phases", "news">>

-----------------------------------------------------------------------------
(* Runs with a configured Hull period: short averages, and series of closes *)
(* around the length at which hma stops falling back on the latest price.   *)

MaxPeriod == 9

\* n closes: a ramp, a zigzag, a hump
Series(n, shape) ==
    [i \in 1..n |->
        IF shape = "ramp" THEN Dollars(10 + i)
        ELSE IF shape = "zigzag" THEN Dollars(10 + ((i * i) % 7))
        ELSE Dollars(10 + ((i * (n - i)) % 5))]

HullConfigs ==
    {[kind |-> "yaml", cfg |-> [hma_period |-> p, ema_period |-> 1, sma_period |-> 3]] :
        p \in 1..MaxPeriod}

HullDownloads ==
    {[t \in {"AAA"} |-> Series(n, shape)] :
        n \in 3..(MaxPeriod + 4), shape \in {"ramp", "zigzag", "hump"}}

InitHull ==
    /\ stateFile = [kind |-> "absent"]
    /\ riskRules = [kind |-> "absent"]
    /\ inputs = NoRun
    /\ locals = NoRun
    /\ report = NoRun
    /\ snapshot = <<0, 0, 0, 0, 0>>
    /\ phase = 0
    /\ phaseConfig \in HullConfigs
    /\ history \in HullDownloads
    /\ brokerage = NoAccount

NextHull == RunOnHistory

SpecHull == InitHull /\ [][NextHull]_vars

\* round(sqrt(n)): sqrt(n) < k + 1/2 exactly when n <= k * k + k
RoundSqrt(n) == IF n <= Isqrt(n) * Isqrt(n) + Isqrt(n) THEN Isqrt(n) ELSE Isqrt(n) + 1

\* the Hull average as C26 states it, the half period taken as period // 2
\* (at least 1)
HullAsStated(prices, period) ==
    IF Len(prices) < period + Largest(1, Isqrt(period)) THEN prices[Len(prices)]
    ELSE LET raw == [k \in 1..(Len(prices) - period + 1) |->
                        LET window == SubSeq(prices, 1, period - 1 + k)
                        IN 2 * wma(window, Largest(1, period \div 2)) - wma(window, period)]
         IN wma(raw, RoundSqrt(period))

\* the rows of the run that carry a Hull value
HullRows == {r \in Range(Get(inputs.phases, "phases", <<>>)) : "hma" \in DOMAIN r}

\* C26: hma(prices, period) is the latest price when fewer than
\* period + floor(sqrt(period)) prices are given, and otherwise the WMA over
\* the last round(sqrt(period)) values of
\* raw[i] = 2 * WMA(prefix_i, period/2) - WMA(prefix_i, period), for every
\* period >= 1, those where round(sqrt(period)) is not floor(sqrt(period))
\* included.
C26_HullAsStated ==
    report.ran =>
        \A r \in HullRows : r.hma = HullAsStated(history[r.ticker], phaseConfig.cfg.hma_period)

\* the same for the periods on which round and floor of the root agree
C26_HullWhereRootsAgree ==
    (report.ran /\ RoundSqrt(phaseConfig.cfg.hma_period) = Isqrt(phaseConfig.cfg.hma_period)) =>
        \A r \in HullRows : r.hma = HullAsStated(history[r.ticker], phaseConfig.cfg.hma_period)

\* period 3 on the ramp 11, 12, 13, 14: the WMA over the last two raw values
\* is not the last raw value the code returns
C26_Period3 ==
    /\ report.ran
    /\ phaseConfig.cfg.hma_period = 3
    /\ history["AAA"] = Series(4, "ramp")
    /\ \E r \in HullRows : r.hma # HullAsStated(history["AAA"], 3)

-----------------------------------------------------------------------------
(* Runs whose report directory may refuse a write: json_path.write_text or  *)
(* md_path.write_text raises (disk full, no permission) and main ends with  *)
(* the exception.                                                            *)

RunOnDisk ==
    \E positions_data \in {HoldA, HoldBA}, outcome \in ReportFailures \cup {"complete"} :
      \E news_out \in NewsOutputs(TickerList(positions_data.positions), ShortFeeds) :
        MainSaving(positions_data, QuietRisk[1], QuietRisk[2], QuietRisk[3],
                   Steady(TickerList(positions_data.positions)), news_out, outcome)

NextDisk == RunOnDisk

SpecDisk == InitFail /\ [][NextDisk]_vars

\* C27: within a run save_state is executed only after both report files
\* (JSON and text) have been written; when writing either of them fails the
\* run ends there and the state file is left exactly as load_state read it at
\* the start of the run.
C27_StateSavedAfterReports ==
    [][report'.ran =>
        /\ stateFile' # stateFile => report'.files = <<"json", "md">>
        /\ report'.files # <<"json", "md">> =>
              /\ stateFile' = stateFile
              /\ stateFile' = locals'.state_text]_vars

\* C27 witness: the JSON report was written, the text report was not; the
\* state file still is the one an earlier run saved, not this run's document
C27_Witness ==
    /\ report.ran
    /\ report.files = <<"json">>
    /\ locals.state_loaded
    /\ stateFile = locals.state_text
    /\ stateFile # DocumentOfRun

-----------------------------------------------------------------------------
\* the tickers of the rows of a payload that carry a phase
ClassifiedTickers(payload) ==
    {Upper(r.ticker) : r \in {c \in Range(RowsOf(payload)) :
                                "error" \notin DOMAIN c /\ c.phase.type = "int"}}

\* C28: the phaseByTicker a run persists holds exactly the tickers classified
\* in that run and nothing of the previous state: a ticker missing or in
\* error in a run (every ticker, when the position or the phase source fails)
\* is gone from the state, and when it is classified again in the next run
\* its row gets no previousPhase and no transition is reported for it.
C28_NothingCarriedOver ==
    [][report'.ran =>
        /\ PersistedTickers(stateFile') = ClassifiedTickers(inputs'.phases)
        /\ \A r \in Range(RowsOf(inputs'.phases)) :
              r.ticker \notin PersistedTickers(stateFile) =>
                  /\ "previousPhase" \notin DOMAIN r
                  /\ \A i \in 1..Len(report'.phaseTransitions) :
                        report'.phaseTransitions[i][2] # r.ticker]_vars

\* C28 witness: the state loaded was saved by a run (it carries updatedAt) in
\* which BBB was classified and AAA was not; this run classifies AAA in phase
\* 4 and BBB in phase 5: only BBB's transition is reported
C28_Witness ==
    /\ report.ran
    /\ IsStateObject(locals.state_text)
    /\ "updatedAt" \in DOMAIN locals.state_text.doc.val
    /\ PersistedTickers(locals.state_text) = {"BBB"}
    /\ PersistedPhase(locals.state_text, "BBB") = 3
    /\ ClassifiedTickers(inputs.phases) = {"AAA", "BBB"}
    /\ \E r \in Range(RowsOf(inputs.phases)) :
          r.ticker = "AAA" /\ r.phase = JInt(4) /\ "previousPhase" \notin DOMAIN r
    /\ report.phaseTransitions = << <<"phase_transition", "BBB", 3, 5>> >>

-----------------------------------------------------------------------------
(* Runs on BBB and AAA in which the collaborators may print today what they *)
(* printed the run before: short and bulk news payloads, steady and          *)
(* weakening phases, a ticker in error.                                      *)

RepeatRows ==
    {[phases |-> <<ClassifiedRow("BBB", b), ClassifiedRow("AAA", a)>>] :
        a, b \in {<<3, "rising", "neutral">>, <<4, "falling", "neutral">>}}
    \cup {[phases |-> <<ErrorRow("BBB"), ClassifiedRow("AAA", <<4, "falling", "neutral">>)>>]}

RunOnRepeat ==
    \E phases_out \in RepeatRows,
       news_out \in NewsOutputs(<<"AAA", "BBB">>, ShortFeeds \cup BulkFeeds) :
        Main(HoldBA, QuietRisk[1], QuietRisk[2], QuietRisk[3], phases_out, news_out)

NextRepeat == RunOnRepeat

SpecRepeat == InitFail /\ [][NextRepeat]_vars

\* a row as the phase source printed it
AsPrinted(row) == [k \in DOMAIN row \ {"previousPhase"} |-> row[k]]
PrintedPhases(payload) == [i \in 1..Len(RowsOf(payload)) |-> AsPrinted(RowsOf(payload)[i])]

\* the step is a run that received what the run before it received
SameOutputsAgain ==
    /\ report.ran
    /\ report'.ran
    /\ inputs'.positions = inputs.positions
    /\ inputs'.stops = inputs.stops
    /\ inputs'.drawdown = inputs.drawdown
    /\ inputs'.exposure = inputs.exposure
    /\ PrintedPhases(inputs'.phases) = PrintedPhases(inputs.phases)
    /\ inputs'.news = inputs.news

\* C29: a run immediately followed by a run with identical collaborator
\* outputs (holding at most 500 distinct fingerprints): the second run
\* reports no phase transition and zero new headlines and persists the
\* phaseByTicker and the newsHashes the first run persisted.
C29_SecondRunIsQuiet ==
    [][(/\ SameOutputsAgain
        /\ Cardinality(Range(AllHeadlineHashes(HeadlinesOf(inputs.news)))) <= NEWS_HASH_CAP) =>
            /\ report'.phaseTransitions = <<>>
            /\ report'.newHeadlinesCount = 0
            /\ stateFile'.doc.val.phaseByTicker = stateFile.doc.val.phaseByTicker
            /\ stateFile'.doc.val.newsHashes = stateFile.doc.val.newsHashes]_vars

\* C29 witness: the state loaded is the document this run's outputs make, two
\* tickers in phase 4 and a full 500 fingerprints; nothing is new, nothing
\* moved, and the state saved is the state loaded but for its date
C29_Witness ==
    /\ report.ran
    /\ locals.state_text = DocumentOfRun
    /\ stateFile = DocumentOfRun
    /\ Len(HeadlinesOf(inputs.news)) = NEWS_HASH_CAP
    /\ PersistedPhase(stateFile, "AAA") = 4
    /\ PersistedPhase(stateFile, "BBB") = 4
    /\ report.phaseTransitions = <<>>
    /\ report.newHeadlinesCount = 0

====
